---- MODULE Spec2Model ----
(***************************************************************************)
(* Model of the DropfleetTTS card updater                                  *)
(* (src/Write Data Script/tts_Update_Script.py): the containment indexer,  *)
(* the path resolver, the faction and card classifiers, the pattern        *)
(* extractor, the script rewriters and the tree walker.                    *)
(* Spec is the whole program; FnSpec applies the pure functions to inputs  *)
(* of their own; V2Spec is the run of tts_Update_Script_V2.py.             *)
(*                                                                         *)
(* Text.  A Python str is modelled as a sequence of chunks.  A chunk is    *)
(* either a single character ("U", " ", "=") or one of the fixed literals  *)
(* the program's patterns and indicator lists mention ("local",            *)
(* "cardFrontImage", "rebuildUI()", "http://", ...).  Inputs are written   *)
(* so that such a literal always appears as one whole chunk; substring     *)
(* tests, regular expressions, lower(), strip(), replace() and quote()     *)
(* are then computed chunk by chunk exactly as the code computes them      *)
(* character by character.                                                 *)
(***************************************************************************)
EXTENDS Integers, Sequences, FiniteSets, TLC

(***************************************************************************)
(* Generic string helpers (Python built-ins used by the source).           *)
(***************************************************************************)
Upper == <<"A","B","C","D","E","F","G","H","I","J","K","L","M",
           "N","O","P","Q","R","S","T","U","V","W","X","Y","Z">>
LowerOf == <<"a","b","c","d","e","f","g","h","i","j","k","l","m",
             "n","o","p","q","r","s","t","u","v","w","x","y","z">>

LowerMap == [c \in {Upper[k] : k \in 1..26} |-> LowerOf[CHOOSE k \in 1..26 : Upper[k] = c]]

\* str.lower() on one chunk
LowerChunk(c) == IF c \in DOMAIN LowerMap THEN LowerMap[c] ELSE c

\* str.lower()
Lower(s) == [i \in 1..Len(s) |-> LowerChunk(s[i])]

\* Python `needle in hay` for strings
Contains(hay, needle) ==
    \E i \in 0..(Len(hay) - Len(needle)) :
        \A k \in 1..Len(needle) : hay[i + k] = needle[k]

IsSpace(c) == c \in {" ", "\n", "\t"}
IsQuote(c) == c \in {"'", "\""}
IsNumChar(c) == c \in {"0","1","2","3","4","5","6","7","8","9","."}
IsScheme(c) == c \in {"http://", "https://"}

\* str.strip()
Strip(s) ==
    LET keep == {j \in 1..Len(s) : ~IsSpace(s[j])}
    IN  IF keep = {} THEN <<>>
        ELSE SubSeq(s, CHOOSE x \in keep : \A y \in keep : x <= y,
                       CHOOSE x \in keep : \A y \in keep : x >= y)

\* least element of a non-empty set of integers
Least(S) == CHOOSE x \in S : \A y \in S : x <= y

\* index reached after \s* starting at i
SkipWs(s, i) ==
    LET rest == {j \in i..Len(s) : ~IsSpace(s[j])}
    IN  IF rest = {} THEN (IF i > Len(s) THEN i ELSE Len(s) + 1) ELSE Least(rest)

\* least index r >= i with s[r] a quote, such that no chunk of i..r-1 is
\* in `stop`; 0 when there is none
NextQuote(s, i, stop) ==
    LET quotes == {j \in i..Len(s) : IsQuote(s[j])}
    IN  IF quotes = {} THEN 0
        ELSE IF \E j \in i..(Least(quotes) - 1) : s[j] \in stop THEN 0
        ELSE Least(quotes)

\* index reached after [0-9.]* starting at i
SkipNum(s, i) ==
    LET rest == {j \in i..Len(s) : ~IsNumChar(s[j])}
    IN  IF rest = {} THEN (IF i > Len(s) THEN i ELSE Len(s) + 1) ELSE Least(rest)

(***************************************************************************)
(* Program constants.                                                      *)
(***************************************************************************)
UCM == <<"U","C","M">>
PHR == <<"P","H","R">>
Shaltari == <<"S","h","a","l","t","a","r","i">>
Scourge == <<"S","c","o","u","r","g","e">>
Resistance == <<"R","e","s","i","s","t","a","n","c","e">>
Bioficers == <<"B","i","o","f","i","c","e","r","s">>
Neutral == <<"N","e","u","t","r","a","l">>

VALID_FACTIONS == <<UCM, PHR, Shaltari, Scourge, Resistance, Bioficers, Neutral>>

OldContent == <<"O","l","d"," ","2",".","0"," ","C","o","n","t","e","n","t">>
IGNORED_CONTAINERS == {OldContent}

MODE_SHIPS_ONLY == "ships"
MODE_UPGRADES_ONLY == "upgrades"
MODE_BOTH == "both"

GITHUB_RAW_BASE_URL == <<"https://", "github.com/TemporalDistoriton/DropfleetTTS/blob/main">>
USE_RAW_TRUE == TRUE

\* the defaults of extract_parameter: the int 0 and the str "Unknown"
IntZero == <<"<int 0>">>
Unknown == <<"Unknown">>
UnnamedModel == <<"Unnamed Model">>
UnnamedObject == <<"Unnamed Object">>
NotUpdated == <<"Not Updated">>
None == <<"<None>">>

NumberParams == {"baseScale", "health", "sig", "points"}
UrlParams == {"modelImage", "cardFrontImage", "cardImage"}
PARAMETERS == <<"baseScale", "health", "sig", "points", "modelImage", "name", "cardFrontImage">>
UPGRADE_PARAMETERS == <<"name", "cardImage", "points">>

(***************************************************************************)
(* Regular expressions of the source, as matchers on chunk sequences.      *)
(* A matcher returns the index just after the match, or 0.                 *)
(***************************************************************************)
\* =\s*  at a
EqualsEnd(s, a) == IF a <= Len(s) /\ s[a] = "=" THEN SkipWs(s, a + 1) ELSE 0

\* p\s*=\s*  at i
AssignEnd(s, i, p) ==
    IF i <= Len(s) /\ s[i] = p THEN EqualsEnd(s, SkipWs(s, i + 1)) ELSE 0

\* local\s+  at i, a being the index after the blanks that follow s[i]:
\* the index after it, or i where the alternative without `local` applies
LocalEnd(s, i, a) == IF i <= Len(s) /\ s[i] = "local" /\ a > i + 1 THEN a ELSE i

\* (?:local\s+p\s*=\s*|p\s*=\s*)  at i
PrefixEnd(s, i, p) == AssignEnd(s, LocalEnd(s, i, SkipWs(s, i + 1)), p)

NoMatch == [end |-> 0, g1 |-> 0, g2 |-> 0]

\* the match whose group starts at g1 and whose closing quote is found at
\* r (0: none), the quote having to be at lo or later
Quoted(g1, lo, r) ==
    IF r = 0 \/ r < lo THEN NoMatch ELSE [end |-> r + 1, g1 |-> g1, g2 |-> r - 1]

\* the indices from i on where a match of a pattern on field p can start:
\* every pattern of the source starts with `local` or with the field name
MatchStarts(s, i, p) == {j \in i..Len(s) : s[j] = "local" \/ s[j] = p}

\* ([0-9.]+) from a to e (the index after the digits)
NumSpan(a, e) == IF e = a THEN NoMatch ELSE [end |-> e, g1 |-> a, g2 |-> e - 1]

\* ([0-9.]+)  at a, the index after the prefix (0: the prefix failed)
NumGroup(s, a) == IF a = 0 THEN NoMatch ELSE NumSpan(a, SkipNum(s, a))

\* prefix ([0-9.]+) : end, and the group's first and last index
NumMatch(s, i, p) == NumGroup(s, PrefixEnd(s, i, p))

\* ['"](https?://[^'"]+)['"]  at a
UrlGroup(s, a) ==
    IF a = 0 \/ a + 1 > Len(s) THEN NoMatch
    ELSE IF ~IsQuote(s[a]) \/ ~IsScheme(s[a + 1]) THEN NoMatch
    ELSE Quoted(a + 1, a + 3, NextQuote(s, a + 2, {}))

\* prefix ['"](https?://[^'"]+)['"]
UrlMatch(s, i, p) == UrlGroup(s, PrefixEnd(s, i, p))

\* ['"](.*?)['"]  at a
NameGroup(s, a) ==
    IF a = 0 \/ a > Len(s) THEN NoMatch
    ELSE IF ~IsQuote(s[a]) THEN NoMatch
    ELSE Quoted(a + 1, a + 1, NextQuote(s, a + 1, {"\n"}))

\* prefix ['"](.*?)['"]
NameMatch(s, i, p) == NameGroup(s, PrefixEnd(s, i, p))

ParamMatch(s, i, p) ==
    IF p \in NumberParams THEN NumMatch(s, i, p)
    ELSE IF p \in UrlParams THEN UrlMatch(s, i, p)
    ELSE NameMatch(s, i, p)

\* match.group(1).strip()
Group1(content, m) == Strip(SubSeq(content, m.g1, m.g2))

\* the result of extract_parameter, `hits` being the indices where the
\* pattern matches: re.search takes the leftmost
Extracted(content, param_name, hits) ==
    IF hits # {}
    THEN Group1(content, ParamMatch(content, Least(hits), param_name))
    ELSE IF param_name \in NumberParams THEN IntZero
    ELSE Unknown

\* src: extract_parameter
extract_parameter(content, param_name) ==
    Extracted(content, param_name,
              {i \in MatchStarts(content, 1, param_name) :
                  ParamMatch(content, i, param_name).end # 0})

\* faction.lower() for each entry of VALID_FACTIONS
LowerFactions == [k \in 1..Len(VALID_FACTIONS) |-> Lower(VALID_FACTIONS[k])]

\* variant: the last matching entry of VALID_FACTIONS wins
determine_faction_last_match(container_name) ==
    LET low == Lower(container_name)
        hits == {k \in 1..Len(VALID_FACTIONS) : Contains(low, LowerFactions[k])}
    IN  IF hits # {}
        THEN VALID_FACTIONS[CHOOSE k \in hits : \A j \in hits : j <= k]
        ELSE IF Contains(low, <<"b","i","o">>) THEN Bioficers
        ELSE Neutral

\* src: determine_faction_from_container
determine_faction_from_container(container_name) ==
    LET low == Lower(container_name)
        hits == {k \in 1..Len(VALID_FACTIONS) : Contains(low, LowerFactions[k])}
    IN  IF hits # {}
        THEN VALID_FACTIONS[Least(hits)]
        ELSE IF Contains(low, <<"u","c","m">>) THEN UCM
        ELSE IF Contains(low, <<"p","h","r">>) THEN PHR
        ELSE IF Contains(low, <<"s","h","a","l","t","a","r","i">>) THEN Shaltari
        ELSE IF Contains(low, <<"s","c","o","u","r","g","e">>) THEN Scourge
        ELSE IF Contains(low, <<"r","e","s","i","s","t","a","n","c","e">>) THEN Resistance
        ELSE IF Contains(low, <<"b","i","o">>) THEN Bioficers
        ELSE Neutral

ShipIndicators == {"rebuildUI()", "createModel", "cardFrontImage", "modelImage", "baseScale", "onSave()"}
UpgradeIndicators == {"rebuildUI()", "cardImage", "onLoad", "points", "onSave()"}

\* src: is_ship_card_script
is_ship_card_script(content) ==
    Cardinality({x \in ShipIndicators : Contains(content, <<x>>)}) >= 3

\* variant: a model-image reference does not exclude the body
is_upgrade_card_script_with_model(content) ==
    /\ Cardinality({x \in UpgradeIndicators : Contains(content, <<x>>)}) >= 3
    /\ Contains(content, <<"cardImage">>) \/ Contains(content, <<"CardImage">>)

\* src: is_upgrade_card_script
is_upgrade_card_script(content) ==
    LET matches == Cardinality({x \in UpgradeIndicators : Contains(content, <<x>>)})
        has_card_image == Contains(content, <<"cardImage">>) \/ Contains(content, <<"CardImage">>)
        no_model_image == ~Contains(content, <<"modelImage">>) /\ ~Contains(content, <<"ModelImage">>)
    IN  matches >= 3 /\ has_card_image /\ no_model_image

\* src: sanitize_filename
sanitize_filename(name) ==
    Strip([i \in 1..Len(name) |->
            IF name[i] \in {"<", ">", ":", "\"", "/", "\\", "|", "?", "*"} THEN "_" ELSE name[i]])

\* urllib.parse.quote on one chunk (letters, digits and _ . - ~ / are safe)
QuoteChunk(c) ==
    CASE c = " " -> "%20"
      [] c = "'" -> "%27"
      [] c = "=" -> "%3D"
      [] c = "\n" -> "%0A"
      [] c = "!" -> "%21"
      [] c = "Unnamed Model" -> "Unnamed%20Model"
      [] c = "Unnamed Object" -> "Unnamed%20Object"
      [] OTHER -> c

\* urllib.parse.quote
quote(s) == [i \in 1..Len(s) |-> QuoteChunk(s[i])]

\* src: get_github_path
get_github_path(faction, item_name, image_type, is_upgrade) ==
    IF is_upgrade
    THEN faction \o <<"/", "Upgrades", "/">> \o sanitize_filename(item_name) \o <<".png">>
    ELSE faction \o <<"/">> \o sanitize_filename(item_name) \o <<"_", image_type, ".png">>

\* src: get_github_image_url
get_github_image_url(faction, item_name, image_type, is_upgrade) ==
    LET sanitized_name == sanitize_filename(item_name)
        encoded_path ==
            IF is_upgrade
            THEN faction \o <<"/", "Upgrades", "/">> \o quote(sanitized_name \o <<".png">>)
            ELSE faction \o <<"/">> \o quote(sanitized_name \o <<"_", image_type, ".png">>)
    IN  GITHUB_RAW_BASE_URL \o <<"/">> \o encoded_path
            \o (IF USE_RAW_TRUE THEN <<"?raw=true">> ELSE <<>>)

(***************************************************************************)
(* re.search / re.sub for the patterns of the two rewriters.  A pattern is *)
(* [t |-> "url", p |-> field], [t |-> "faction1"] or [t |-> "faction2"].   *)
(* SubMatch gives the match at i: the index after it, and the first and    *)
(* last index of the part between group 1 and group 2.                     *)
(***************************************************************************)
\* .+?(['"]) after the opening quote at a
LazyTail(s, a) ==
    IF a = 0 \/ a + 1 > Len(s) THEN NoMatch
    ELSE IF ~IsQuote(s[a]) \/ s[a + 1] = "\n" THEN NoMatch
    ELSE Quoted(a + 1, a + 2, NextQuote(s, a + 2, {"\n"}))

\* faction\s*=\s*['"].+?(['"])  at a, which is where local\s+ ended when
\* a > i + 1
LocalFaction(s, i, a) ==
    IF a > i + 1 THEN LazyTail(s, AssignEnd(s, a, "faction")) ELSE NoMatch

\* (local\s+faction\s*=\s*['"]).+?(['"])
FactionLocalMatch(s, i) ==
    IF i <= Len(s) /\ s[i] = "local" THEN LocalFaction(s, i, SkipWs(s, i + 1)) ELSE NoMatch

\* \s+ at j: the index after it, 0 when no blank is there
Blanks(j, e) == IF e = j THEN 0 ELSE e

\* or\s+['"].+?(['"])  at c (0: the pattern failed before)
OrFaction(s, c) ==
    IF c = 0 \/ c > Len(s) THEN NoMatch
    ELSE IF s[c] # "or" THEN NoMatch
    ELSE LazyTail(s, Blanks(c + 1, SkipWs(s, c + 1)))

\* data\.faction\s+or\s+['"].+?(['"])  at b (0: the pattern failed before)
DataFaction(s, b) ==
    IF b = 0 \/ b > Len(s) THEN NoMatch
    ELSE IF s[b] # "data.faction" THEN NoMatch
    ELSE OrFaction(s, Blanks(b + 1, SkipWs(s, b + 1)))

\* (faction\s*=\s*data\.faction\s+or\s+['"]).+?(['"])
FactionDataMatch(s, i) == DataFaction(s, AssignEnd(s, i, "faction"))

SubMatch(pat, s, i) ==
    IF pat.t = "url" THEN UrlMatch(s, i, pat.p)
    ELSE IF pat.t = "faction1" THEN FactionLocalMatch(s, i)
    ELSE FactionDataMatch(s, i)

UrlPattern(field) == [t |-> "url", p |-> field]
faction_patterns == << [t |-> "faction1", p |-> "faction"], [t |-> "faction2", p |-> "faction"] >>

re_search(pat, s) == \E i \in MatchStarts(s, 1, pat.p) : SubMatch(pat, s, i).end # 0

\* the match at the least of the indices `hits`
MatchAtLeast(pat, s, hits) == IF hits = {} THEN NoMatch ELSE SubMatch(pat, s, Least(hits))

\* the leftmost match of pat in s at or after i
Leftmost(pat, s, i) ==
    MatchAtLeast(pat, s, {j \in MatchStarts(s, i, pat.p) : SubMatch(pat, s, j).end # 0})

\* re.sub(pat, r"\1" + repl + r"\2", s), scanning from index i: the text
\* up to the leftmost match at or after i is copied, the match is replaced
\* and the scan goes on after it
\* m is the leftmost match at or after i (NoMatch: there is none)
RECURSIVE re_sub_from(_, _, _, _, _)
re_sub_from(pat, repl, s, i, m) ==
    IF m.end = 0 THEN SubSeq(s, i, Len(s))
    ELSE SubSeq(s, i, m.g1 - 1) \o repl \o <<s[m.end - 1]>>
             \o re_sub_from(pat, repl, s, m.end, Leftmost(pat, s, m.end))

re_sub(pat, repl, s) == re_sub_from(pat, repl, s, 1, Leftmost(pat, s, 1))

\* the loop over faction_patterns at the end of both rewriters, from the
\* k-th pattern on: the first pattern found is substituted, then `break`
RECURSIVE UpdateFactionFrom(_, _, _)
UpdateFactionFrom(script, determined_faction, k) ==
    IF k > Len(faction_patterns) THEN script
    ELSE IF re_search(faction_patterns[k], script)
    THEN re_sub(faction_patterns[k], determined_faction, script)
    ELSE UpdateFactionFrom(script, determined_faction, k + 1)

UpdateFaction(script, determined_faction) == UpdateFactionFrom(script, determined_faction, 1)

(***************************************************************************)
(* The asset repository (external).  repo = [names, kinds]: the files      *)
(* present are the images of these kinds for the items with these file     *)
(* names, under every faction folder.                                      *)
(***************************************************************************)
ImageKinds == {"CardFrontImage", "ModelImage", "Upgrade"}

\* the HTTP answer for a path: status 200 or not
RepoHas(repo, faction, item_name, image_type) ==
    /\ image_type \in repo.kinds
    /\ sanitize_filename(item_name) \in repo.names

\* src: check_image_exists -- the answer and the path tried
check_image_exists(repo, faction, item_name, image_type, is_upgrade) ==
    [exists |-> RepoHas(repo, faction, item_name, image_type),
     path |-> get_github_path(faction, item_name, image_type, is_upgrade)]

ErrorLine(kind, image, name, faction, path) ==
    [kind |-> kind, image |-> image, name |-> name, faction |-> faction, path |-> path]

\* variant: the SKIPPING line is logged when either image is missing
ShipErrorsSkipOnAny(card_front, model, ship_name, determined_faction) ==
    (IF ~card_front.exists
     THEN <<ErrorLine("ERROR", "CardFrontImage", ship_name, determined_faction, card_front.path)>>
     ELSE <<>>)
    \o (IF ~model.exists
        THEN <<ErrorLine("ERROR", "ModelImage", ship_name, determined_faction, model.path)>>
        ELSE <<>>)
    \o (IF ~card_front.exists \/ ~model.exists
        THEN <<ErrorLine("SKIPPING", "", ship_name, determined_faction, <<>>)>>
        ELSE <<>>)

\* the lines update_ship_card_script appends to error_log: one ERROR line
\* per missing image, then the SKIPPING line when both are missing
ShipErrors(card_front, model, ship_name, determined_faction) ==
    (IF ~card_front.exists
     THEN <<ErrorLine("ERROR", "CardFrontImage", ship_name, determined_faction, card_front.path)>>
     ELSE <<>>)
    \o (IF ~model.exists
        THEN <<ErrorLine("ERROR", "ModelImage", ship_name, determined_faction, model.path)>>
        ELSE <<>>)
    \o (IF ~card_front.exists /\ ~model.exists
        THEN <<ErrorLine("SKIPPING", "", ship_name, determined_faction, <<>>)>>
        ELSE <<>>)

\* `if exists: modified_script = re.sub(pattern, ..., modified_script)`
SubIf(exists, pat, url, script) == IF exists THEN re_sub(pat, url, script) ELSE script

\* the rewriting with the two canonical URLs at hand
RewriteUrls(lua_script, card_front_exists, model_exists, determined_faction, card_front_url, model_url) ==
    [script |-> UpdateFaction(SubIf(model_exists, UrlPattern("modelImage"), model_url,
                                    SubIf(card_front_exists, UrlPattern("cardFrontImage"),
                                          card_front_url, lua_script)),
                              determined_faction),
     new_model_url |-> IF model_exists THEN model_url ELSE None,
     new_card_front_url |-> IF card_front_exists THEN card_front_url ELSE None]

\* the rewriting part of update_ship_card_script: the URL literal of each
\* image that exists, then the faction literal
RewriteShip(lua_script, card_front_exists, model_exists, determined_faction, ship_name) ==
    RewriteUrls(lua_script, card_front_exists, model_exists, determined_faction,
                get_github_image_url(determined_faction, ship_name, "CardFrontImage", FALSE),
                get_github_image_url(determined_faction, ship_name, "ModelImage", FALSE))

\* variant: no early return when neither image exists
RewriteAlways(lua_script, card_front, model, determined_faction, ship_name) ==
    RewriteShip(lua_script, card_front.exists, model.exists, determined_faction, ship_name)

\* the early return of update_ship_card_script when neither image exists,
\* else the rewriting
RewriteOrSkip(lua_script, card_front, model, determined_faction, ship_name) ==
    IF ~card_front.exists /\ ~model.exists
    THEN [script |-> lua_script, new_model_url |-> None, new_card_front_url |-> None]
    ELSE RewriteShip(lua_script, card_front.exists, model.exists, determined_faction, ship_name)

\* update_ship_card_script, card_front and model being the answers of
\* check_image_exists: the returned triple `out`, the lines appended to
\* error_log and the existence checks issued
ShipOutcome(out, card_front, model, determined_faction, ship_name) ==
    [script |-> out.script,
     new_model_url |-> out.new_model_url,
     new_card_front_url |-> out.new_card_front_url,
     errors |-> ShipErrors(card_front, model, ship_name, determined_faction),
     checks |-> <<card_front.path, model.path>>]

UpdateShip(lua_script, card_front, model, determined_faction, ship_name) ==
    ShipOutcome(RewriteOrSkip(lua_script, card_front, model, determined_faction, ship_name),
                card_front, model, determined_faction, ship_name)

\* src: update_ship_card_script
update_ship_card_script(repo, lua_script, determined_faction, ship_name, object_name) ==
    UpdateShip(lua_script,
               check_image_exists(repo, determined_faction, ship_name, "CardFrontImage", FALSE),
               check_image_exists(repo, determined_faction, ship_name, "ModelImage", FALSE),
               determined_faction, ship_name)

\* variant: the faction literal is rewritten although the image is missing
UpdateUpgradeFactionAnyway(lua_script, upgrade, upgrade_url, determined_faction, upgrade_name) ==
    [script |-> UpdateFaction(IF upgrade.exists
                              THEN re_sub(UrlPattern("cardImage"), upgrade_url, lua_script)
                              ELSE lua_script, determined_faction),
     new_card_url |-> IF upgrade.exists THEN upgrade_url ELSE None,
     errors |-> IF upgrade.exists THEN <<>>
                ELSE <<ErrorLine("ERROR", "Upgrade", upgrade_name, determined_faction, upgrade.path)>>,
     checks |-> <<upgrade.path>>]

\* update_upgrade_card_script, upgrade being the answer of
\* check_image_exists and upgrade_url the canonical URL
UpdateUpgrade(lua_script, upgrade, upgrade_url, determined_faction, upgrade_name) ==
    IF ~upgrade.exists
    THEN [script |-> lua_script, new_card_url |-> None,
          errors |-> <<ErrorLine("ERROR", "Upgrade", upgrade_name, determined_faction, upgrade.path)>>,
          checks |-> <<upgrade.path>>]
    ELSE [script |-> UpdateFaction(re_sub(UrlPattern("cardImage"), upgrade_url, lua_script),
                                   determined_faction),
          new_card_url |-> upgrade_url,
          errors |-> <<>>,
          checks |-> <<upgrade.path>>]

\* src: update_upgrade_card_script
update_upgrade_card_script(repo, lua_script, determined_faction, upgrade_name, object_name) ==
    UpdateUpgrade(lua_script,
                  check_image_exists(repo, determined_faction, upgrade_name, "Upgrade", TRUE),
                  get_github_image_url(determined_faction, upgrade_name, "Upgrade", TRUE),
                  determined_faction, upgrade_name)

\* variant: only the outermost container of the path is tested
should_skip_top_container(container_path) ==
    container_path # <<>> /\ container_path[1] \in IGNORED_CONTAINERS

\* src: should_skip_container
should_skip_container(container_path) ==
    \E k \in 1..Len(container_path) : container_path[k] \in IGNORED_CONTAINERS

(***************************************************************************)
(* The save file.  tree[n] is the n-th object of ObjectStates in document  *)
(* (pre-order) numbering: parent is the index of the containing object (0  *)
(* at top level); has_guid / has_nick tell whether the "GUID" / "Nickname" *)
(* key is present.  lua[n] is the object's LuaScript (<<>> when absent or  *)
(* empty: the code treats both alike).                                     *)
(***************************************************************************)
VARIABLES tree, lua, repo, mode,
          phase, run, stack, hierarchy,
          error_log, extracted_data, extracted_upgrade_data, console,
          result, indexed, visited, checks, lua_start,
          call, v2

vars == <<tree, lua, repo, mode, phase, run, stack, hierarchy,
          error_log, extracted_data, extracted_upgrade_data, console,
          result, indexed, visited, checks, lua_start, call, v2>>

\* program constants: the depth caps of the two passes and the step cap of
\* the path resolver
BUILD_MAX_DEPTH == 10
WALK_MAX_DEPTH == 10
PATH_MAX_STEPS == 10

NoneGuid == "<None>"

Nodes == 1..Len(tree)

\* obj["ContainedObjects"] of object n (n = 0: the ObjectStates array)
ContainedObjects(n) ==
    SelectSeq([i \in 1..Len(tree) |-> i], LAMBDA i : tree[i].parent = n)

\* number of containers above n
RECURSIVE DepthOf(_)
DepthOf(n) == IF tree[n].parent = 0 THEN 0 ELSE 1 + DepthOf(tree[n].parent)

RECURSIVE Ancestors(_)
Ancestors(n) ==
    IF tree[n].parent = 0 THEN {} ELSE {tree[n].parent} \cup Ancestors(tree[n].parent)

\* obj.get("Nickname", default)
NicknameOr(n, default) == IF tree[n].has_nick THEN tree[n].nick ELSE default

\* a dict update d[k] = v
DictPut(d, k, v) == [x \in DOMAIN d \cup {k} |-> IF x = k THEN v ELSE d[x]]

EmptyDict == [x \in {} |-> 0]

Frame(objs, parent_guid, parent_path, depth, modified) ==
    [objs |-> objs, i |-> 1, parent_guid |-> parent_guid,
     parent_path |-> parent_path, depth |-> depth, modified |-> modified]

Top == stack[Len(stack)]
Pop == SubSeq(stack, 1, Len(stack) - 1)

\* variant: the loop is left after the iteration (break for continue)
AdvanceToEnd == [stack EXCEPT ![Len(stack)].i = Len(Top.objs) + 1]

Advance == [stack EXCEPT ![Len(stack)].i = @ + 1]

\* variant: the collected names are returned in the order of collection
ReverseOmitted(s) == s

\* path[::-1]
RECURSIVE Reverse(_)
Reverse(s) == IF s = <<>> THEN <<>> ELSE Append(Reverse(Tail(s)), s[1])

\* the for-loop of find_container_path with k iterations left: the names
\* collected and the number of upward steps taken
RECURSIVE FindPathLoop(_, _, _, _, _)
FindPathLoop(h, current_guid, path, steps, k) ==
    IF k = 0 THEN [path |-> path, steps |-> steps]
    ELSE IF current_guid \notin DOMAIN h THEN [path |-> path, steps |-> steps]
    ELSE LET parent_guid == h[current_guid].parent_guid
         IN  IF parent_guid = NoneGuid THEN [path |-> path, steps |-> steps]
             ELSE LET parent_nickname ==
                          IF parent_guid \in DOMAIN h THEN h[parent_guid].nickname ELSE <<>>
                  IN  FindPathLoop(h, parent_guid,
                                   IF parent_nickname # <<>>
                                   THEN Append(path, parent_nickname) ELSE path,
                                   steps + 1, k - 1)

\* variant: the loop runs twice as long
find_container_path_long(h, guid) ==
    Reverse(FindPathLoop(h, guid, <<>>, 0, 2 * PATH_MAX_STEPS).path)

\* src: find_container_path
find_container_path(h, guid) ==
    Reverse(FindPathLoop(h, guid, <<>>, 0, PATH_MAX_STEPS).path)

\* " > ".join(path)
RECURSIVE JoinPath(_)
JoinPath(path) ==
    IF path = <<>> THEN <<>>
    ELSE IF Len(path) = 1 THEN path[1]
    ELSE path[1] \o <<" > ">> \o JoinPath(Tail(path))

\* `if faction != "Neutral": determined_faction = faction`
NonNeutralOr(faction, otherwise) == IF faction # Neutral THEN faction ELSE otherwise

\* the faction loop of process_object_states over the container path
RECURSIVE FirstFaction(_)
FirstFaction(container_path) ==
    IF container_path = <<>> THEN Neutral
    ELSE NonNeutralOr(determine_faction_from_container(container_path[1]),
                      FirstFaction(Tail(container_path)))

\* variant: the object's own name is classified before the container path
DetermineFactionOwnNameFirst(container_path, obj_nickname) ==
    NonNeutralOr(determine_faction_from_container(obj_nickname), FirstFaction(container_path))

\* the faction of process_object_states: the first non-Neutral container
\* name, else the classification of the object's own name
DetermineFaction(container_path, obj_nickname) ==
    NonNeutralOr(FirstFaction(container_path), determine_faction_from_container(obj_nickname))

(***************************************************************************)
(* One iteration of the for-loop of process_object_states on object n,     *)
(* up to (not including) the recursive call: what it decides and what it   *)
(* would append and write.                                                 *)
(*   skip   "current": the name-based path is excluded (continue)          *)
(*          "container": the resolved container path is excluded (continue)*)
(*          "no": the object is processed and its children are walked      *)
(*   kind   "ship", "upgrade" or "none"                                    *)
(***************************************************************************)
\* `for param in PARAMETERS: data[param] = extract_parameter(lua_script, param)`
ExtractAll(content, params) ==
    [p \in {params[k] : k \in 1..Len(params)} |-> extract_parameter(content, p)]

\* the ship name: the extracted name, or the object's nickname when the
\* name is not found or generic
ShipName(extracted, obj_nickname) ==
    IF extracted = <<>> \/ extracted = Unknown \/ extracted = UnnamedModel
    THEN obj_nickname ELSE extracted

\* the upgrade name
UpgradeName(extracted, obj_nickname) ==
    IF extracted = <<>> \/ extracted = Unknown THEN obj_nickname ELSE extracted

\* `url if url else "Not Updated"`
UrlOrNotUpdated(url) == IF url # None THEN url ELSE NotUpdated

\* ship_data, ex being the extracted parameters and upd the result of
\* update_ship_card_script
ShipRecord(n, obj_nickname, obj_guid, container_path, determined_faction, ex, upd) ==
    [data |->
        [baseScale |-> ex["baseScale"],
         health |-> ex["health"],
         sig |-> ex["sig"],
         points |-> ex["points"],
         modelImage |-> ex["modelImage"],
         name |-> ShipName(ex["name"], obj_nickname),
         cardFrontImage |-> ex["cardFrontImage"],
         object_name |-> obj_nickname,
         object_guid |-> obj_guid,
         container_path |-> JoinPath(container_path),
         faction |-> determined_faction,
         new_model_url |-> UrlOrNotUpdated(upd.new_model_url),
         new_card_front_url |-> UrlOrNotUpdated(upd.new_card_front_url),
         node |-> n],
     upd |-> upd]

\* the ship branch of process_object_states
ShipData(n, obj_nickname, obj_guid, container_path, determined_faction, h, r) ==
    ShipRecord(n, obj_nickname, obj_guid, container_path, determined_faction,
               ExtractAll(lua[n], PARAMETERS),
               update_ship_card_script(r, lua[n], determined_faction,
                   ShipName(extract_parameter(lua[n], "name"), obj_nickname), obj_nickname))

\* upgrade_data, ex being the extracted parameters and upd the result of
\* update_upgrade_card_script
UpgradeRecord(n, obj_nickname, obj_guid, container_path, determined_faction, ex, upd) ==
    [data |->
        [name |-> UpgradeName(ex["name"], obj_nickname),
         cardImage |-> ex["cardImage"],
         points |-> ex["points"],
         object_name |-> obj_nickname,
         object_guid |-> obj_guid,
         container_path |-> JoinPath(container_path),
         faction |-> determined_faction,
         new_card_url |-> UrlOrNotUpdated(upd.new_card_url),
         node |-> n],
     upd |-> upd]

\* the upgrade branch of process_object_states
UpgradeData(n, obj_nickname, obj_guid, container_path, determined_faction, h, r) ==
    UpgradeRecord(n, obj_nickname, obj_guid, container_path, determined_faction,
                  ExtractAll(lua[n], UPGRADE_PARAMETERS),
                  update_upgrade_card_script(r, lua[n], determined_faction,
                      UpgradeName(extract_parameter(lua[n], "name"), obj_nickname), obj_nickname))

\* variant: a node that is no card loses its script
NoCardOutcomeCleared(n, skip, current_path, container_path) ==
    [skip |-> skip, kind |-> "none", current_path |-> current_path,
     container_path |-> container_path, ships |-> <<>>, upgrades |-> <<>>,
     script |-> <<>>, errors |-> <<>>, checks |-> <<>>]

\* the outcome of an iteration that handles no card
NoCardOutcome(n, skip, current_path, container_path) ==
    [skip |-> skip, kind |-> "none", current_path |-> current_path,
     container_path |-> container_path, ships |-> <<>>, upgrades |-> <<>>,
     script |-> lua[n], errors |-> <<>>, checks |-> <<>>]

\* the outcome of an iteration that handles a card: d is its ShipData or
\* UpgradeData
CardOutcome(kind, current_path, container_path, d) ==
    [skip |-> "no", kind |-> kind, current_path |-> current_path,
     container_path |-> container_path,
     ships |-> IF kind = "ship" THEN <<d.data>> ELSE <<>>,
     upgrades |-> IF kind = "upgrade" THEN <<d.data>> ELSE <<>>,
     script |-> d.upd.script, errors |-> d.upd.errors, checks |-> d.upd.checks]

\* variant: the upgrade branch is tried before the ship branch
ProcessCardUpgradeFirst(n, obj_nickname, obj_guid, current_path, container_path, determined_faction, h, r, processing_mode) ==
    IF processing_mode \in {MODE_UPGRADES_ONLY, MODE_BOTH} /\ is_upgrade_card_script(lua[n])
    THEN CardOutcome("upgrade", current_path, container_path,
                     UpgradeData(n, obj_nickname, obj_guid, container_path, determined_faction, h, r))
    ELSE IF processing_mode \in {MODE_SHIPS_ONLY, MODE_BOTH} /\ is_ship_card_script(lua[n])
    THEN CardOutcome("ship", current_path, container_path,
                     ShipData(n, obj_nickname, obj_guid, container_path, determined_faction, h, r))
    ELSE NoCardOutcome(n, "no", current_path, container_path)

\* the ship / upgrade branches, the faction being determined
ProcessCard(n, obj_nickname, obj_guid, current_path, container_path, determined_faction, h, r, processing_mode) ==
    IF processing_mode \in {MODE_SHIPS_ONLY, MODE_BOTH} /\ is_ship_card_script(lua[n])
    THEN CardOutcome("ship", current_path, container_path,
                     ShipData(n, obj_nickname, obj_guid, container_path, determined_faction, h, r))
    ELSE IF processing_mode \in {MODE_UPGRADES_ONLY, MODE_BOTH} /\ is_upgrade_card_script(lua[n])
    THEN CardOutcome("upgrade", current_path, container_path,
                     UpgradeData(n, obj_nickname, obj_guid, container_path, determined_faction, h, r))
    ELSE NoCardOutcome(n, "no", current_path, container_path)

\* the body of `if "LuaScript" in obj and obj["LuaScript"]`, the container
\* path being resolved
ProcessScript(n, obj_nickname, obj_guid, current_path, container_path, h, r, processing_mode) ==
    IF should_skip_container(container_path)
    THEN NoCardOutcome(n, "container", current_path, container_path)
    ELSE ProcessCard(n, obj_nickname, obj_guid, current_path, container_path,
                     DetermineFaction(container_path, obj_nickname), h, r, processing_mode)

\* the loop body from the exclusion test on, the current path being built
ProcessNamed(n, obj_nickname, obj_guid, current_path, h, r, processing_mode) ==
    IF should_skip_container(current_path)
    THEN NoCardOutcome(n, "current", current_path, <<>>)
    ELSE IF lua[n] = <<>> THEN NoCardOutcome(n, "no", current_path, <<>>)
    ELSE ProcessScript(n, obj_nickname, obj_guid, current_path,
                       find_container_path(h, obj_guid), h, r, processing_mode)

ProcessObject(n, parent_path, h, r, processing_mode) ==
    ProcessNamed(n, NicknameOr(n, UnnamedObject),
                 IF tree[n].has_guid THEN tree[n].guid ELSE "",
                 IF NicknameOr(n, UnnamedObject) # <<>>
                 THEN Append(parent_path, NicknameOr(n, UnnamedObject)) ELSE parent_path,
                 h, r, processing_mode)

(***************************************************************************)
(* Bounds of the inputs.                                                   *)
(***************************************************************************)
MaxRuns == 2

(***************************************************************************)
(* Actions.  The main program builds the index, then walks the tree        *)
(* (process_tts_save_file: hierarchy = {}, build_container_hierarchy,      *)
(* process_object_states).  A run may be followed by another run on the    *)
(* saved (rewritten) document.                                             *)
(***************************************************************************)
Inputs == <<tree, repo, mode>>
Logs == <<error_log, extracted_data, extracted_upgrade_data, console, checks>>

\* main: container_hierarchy = {}; build_container_hierarchy(ObjectStates, {})
main_build ==
    /\ phase = "start"
    /\ hierarchy' = EmptyDict
    /\ stack' = IF 0 > BUILD_MAX_DEPTH THEN <<>>
                ELSE <<Frame(ContainedObjects(0), NoneGuid, <<>>, 0, FALSE)>>
    /\ phase' = "index"
    /\ UNCHANGED <<Inputs, call, v2, lua, run, Logs, result, indexed, visited, lua_start>>

\* variant: the walker's default display name is recorded
IndexEntryDefaultName(obj, parent_guid) ==
    [parent_guid |-> IF parent_guid \notin {NoneGuid, ""} THEN parent_guid ELSE NoneGuid,
     nickname |-> NicknameOr(obj, UnnamedObject)]

\* the entry build_container_hierarchy records for obj: `if parent_guid:`
\* takes None and "" alike
IndexEntry(obj, parent_guid) ==
    [parent_guid |-> IF parent_guid \notin {NoneGuid, ""} THEN parent_guid ELSE NoneGuid,
     nickname |-> NicknameOr(obj, <<>>)]

\* src: build_container_hierarchy -- one iteration of its for-loop,
\* including the recursive call's depth test
build_container_hierarchy ==
    /\ phase = "index"
    /\ stack # <<>>
    /\ Top.i <= Len(Top.objs)
    /\ LET obj == Top.objs[Top.i]
           obj_guid == tree[obj].guid
       IN  /\ indexed' = indexed \cup {obj}
           /\ IF tree[obj].has_guid
              THEN /\ hierarchy' = DictPut(hierarchy, obj_guid, IndexEntry(obj, Top.parent_guid))
                   /\ stack' = IF ContainedObjects(obj) # <<>> /\ ~(Top.depth + 1 > BUILD_MAX_DEPTH)
                               THEN Append(Advance,
                                           Frame(ContainedObjects(obj), obj_guid, <<>>,
                                                 Top.depth + 1, FALSE))
                               ELSE Advance
              ELSE /\ hierarchy' = hierarchy
                   /\ stack' = Advance
    /\ UNCHANGED <<Inputs, call, v2, lua, phase, run, Logs, result, visited, lua_start>>

\* the return of a build_container_hierarchy call
build_return ==
    /\ phase = "index"
    /\ stack # <<>>
    /\ Top.i > Len(Top.objs)
    /\ stack' = Pop
    /\ UNCHANGED <<Inputs, call, v2, lua, phase, run, hierarchy, Logs, result, indexed, visited, lua_start>>

\* variant: the walker stops one level earlier (depth >= 10)
WalkEntryAtCap(objs, parent_path, depth, modified) ==
    IF depth >= WALK_MAX_DEPTH THEN <<>>
    ELSE IF should_skip_container(parent_path) THEN <<>>
    ELSE <<Frame(objs, NoneGuid, parent_path, depth, modified)>>

\* variant: the walker's cap is one level deeper than the indexer's
WalkEntryDeeper(objs, parent_path, depth, modified) ==
    IF depth > WALK_MAX_DEPTH + 1 THEN <<>>
    ELSE IF should_skip_container(parent_path) THEN <<>>
    ELSE <<Frame(objs, NoneGuid, parent_path, depth, modified)>>

\* the entry of a process_object_states call: the frame it runs in, or
\* <<>> when it returns `modified` at once
WalkEntry(objs, parent_path, depth, modified) ==
    IF depth > WALK_MAX_DEPTH THEN <<>>
    ELSE IF should_skip_container(parent_path) THEN <<>>
    ELSE <<Frame(objs, NoneGuid, parent_path, depth, modified)>>

\* main: process_object_states(ObjectStates, container_hierarchy)
\* variant: the walk starts whether or not the indexing pass has returned
main_process_early ==
    /\ phase = "index"
    /\ stack' = WalkEntry(ContainedObjects(0), <<>>, 0, FALSE)
    /\ phase' = "walk"
    /\ result' = FALSE
    /\ UNCHANGED <<Inputs, call, v2, lua, run, hierarchy, Logs, indexed, visited, lua_start>>

\* process_tts_save_file: the second pass, called when the first has returned
main_process ==
    /\ phase = "index"
    /\ stack = <<>>
    /\ stack' = WalkEntry(ContainedObjects(0), <<>>, 0, FALSE)
    /\ phase' = "walk"
    /\ result' = FALSE
    /\ UNCHANGED <<Inputs, call, v2, lua, run, hierarchy, Logs, indexed, visited, lua_start>>

\* variant: the flag is assigned, not OR-ed
ModifiedLast(modified, updated_script, lua_script) ==
    updated_script # lua_script

\* `if updated_script != lua_script: obj["LuaScript"] = ...; modified = True`
Modified(modified, updated_script, lua_script) ==
    modified \/ updated_script # lua_script

\* variant: new records are put at the head of the list
Prepended(list, records) == records \o list

\* `extracted_data.append(ship_data)`, `extracted_upgrade_data.append(...)`
Appended(list, records) == list \o records

\* variant: a skip prints nothing
SkipSilent(lines, obj, p) == lines

\* `print(f"Skipping content in ignored container: {' > '.join(current_path)}")`
\* and `print(f"Skipping object in ignored container: ...")`: the console
\* after the iteration on obj with outcome p
SkipPrinted(lines, obj, p) ==
    IF p.skip = "no" THEN lines
    ELSE Append(lines, [node |-> obj, path |->
                    IF p.skip = "current" THEN p.current_path ELSE p.container_path])

\* src: process_object_states -- one iteration of its for-loop, including
\* the entry tests of the recursive call on the object's children.  Log
\* lines and existence checks are recorded with the object they are about.
process_object_states ==
    /\ phase = "walk"
    /\ stack # <<>>
    /\ Top.i <= Len(Top.objs)
    /\ \E obj \in {Top.objs[Top.i]} :
       \E p \in {ProcessObject(obj, Top.parent_path, hierarchy, repo, mode)} :
       LET modified == Modified(Top.modified, p.script, lua[obj])
           here == [Advance EXCEPT ![Len(stack)].modified = modified]
       IN  /\ visited' = visited \cup {obj}
           /\ extracted_data' = Appended(extracted_data, p.ships)
           /\ extracted_upgrade_data' = Appended(extracted_upgrade_data, p.upgrades)
           /\ error_log' = error_log \o [k \in 1..Len(p.errors) |-> [node |-> obj, line |-> p.errors[k]]]
           /\ checks' = checks \o [k \in 1..Len(p.checks) |-> [node |-> obj, path |-> p.checks[k]]]
           /\ console' = SkipPrinted(console, obj, p)
           /\ lua' = IF p.script # lua[obj] THEN [lua EXCEPT ![obj] = p.script] ELSE lua
           /\ stack' = IF p.skip = "no" /\ ContainedObjects(obj) # <<>>
                       THEN here \o WalkEntry(ContainedObjects(obj), p.current_path,
                                              Top.depth + 1, modified)
                       ELSE here
    /\ UNCHANGED <<Inputs, call, v2, phase, run, hierarchy, result, indexed, lua_start>>

\* the return of a process_object_states call: `return modified`, and in
\* the caller `if child_modified: modified = True`
process_return ==
    /\ phase = "walk"
    /\ stack # <<>>
    /\ Top.i > Len(Top.objs)
    /\ IF Len(stack) = 1
       THEN /\ stack' = <<>>
            /\ result' = Top.modified
       ELSE /\ stack' = [Pop EXCEPT ![Len(stack) - 1].modified = @ \/ Top.modified]
            /\ result' = result
    /\ UNCHANGED <<Inputs, call, v2, lua, phase, run, hierarchy, Logs, indexed, visited, lua_start>>

\* main: the top-level call has returned
main_done ==
    /\ phase = "walk"
    /\ stack = <<>>
    /\ phase' = "done"
    /\ UNCHANGED <<Inputs, call, v2, lua, run, stack, hierarchy, Logs, result, indexed, visited, lua_start>>

\* the program is run again on the document it saved
run_again ==
    /\ phase = "done"
    /\ run < MaxRuns
    /\ run' = run + 1
    /\ phase' = "start"
    /\ hierarchy' = EmptyDict
    /\ error_log' = <<>>
    /\ extracted_data' = <<>>
    /\ extracted_upgrade_data' = <<>>
    /\ console' = <<>>
    /\ checks' = <<>>
    /\ indexed' = {}
    /\ visited' = {}
    /\ result' = FALSE
    /\ lua_start' = lua
    /\ UNCHANGED <<Inputs, call, v2, lua, stack>>

Next ==
    \/ main_build
    \/ build_container_hierarchy
    \/ build_return
    \/ main_process
    \/ process_object_states
    \/ process_return
    \/ main_done
    \/ run_again

(***************************************************************************)
(* Input documents.                                                        *)
(***************************************************************************)
Asg(field, value) == <<field, " ", "=", " ", "\"">> \o value \o <<"\"">>
LocalAsg(field, value) == <<"local", " ">> \o Asg(field, value)
Ln(x) == x \o <<"\n">>

Foo == <<"F","o","o">>
OldCardFront == <<"http://", "c", "f">>
OldModel == <<"http://", "m">>
OldCard == <<"https://", "c">>

\* a ship card script with every field
ShipFull ==
    Ln(LocalAsg("name", Foo)) \o Ln(LocalAsg("faction", PHR))
    \o Ln(LocalAsg("cardFrontImage", OldCardFront)) \o Ln(LocalAsg("modelImage", OldModel))
    \o Ln(<<"local", " ", "baseScale", " ", "=", " ", "2", ".", "5">>)
    \o Ln(<<"rebuildUI()">>) \o Ln(<<"onSave()">>)

\* a ship card script without a name, a faction or an image URL
ShipBare ==
    Ln(<<"createModel">>) \o Ln(<<"baseScale", "=", "1">>) \o Ln(<<"rebuildUI()">>)

\* a ship card script whose faction literal is empty and shares its line
\* with the name
ShipEmptyFaction ==
    Ln(LocalAsg("faction", <<>>) \o <<" ">> \o LocalAsg("name", Foo))
    \o Ln(Asg("cardFrontImage", OldCardFront)) \o Ln(Asg("modelImage", OldModel))
    \o Ln(<<"rebuildUI()">>)

\* an upgrade card script
UpgradeFull ==
    Ln(Asg("name", Foo)) \o Ln(Asg("cardImage", OldCard))
    \o Ln(<<"points", " ", "=", " ", "1", "0">>)
    \o Ln(<<"faction", " ", "=", " ", "data.faction", " ", "or", " ", "\"">> \o PHR \o <<"\"">>)
    \o Ln(<<"onLoad">>) \o Ln(<<"onSave()">>)

\* a script that satisfies both card predicates
ShipAndUpgrade ==
    Ln(Asg("cardImage", OldCard)) \o Ln(<<"points", "=", "5">>)
    \o Ln(<<"baseScale", "=", "1">>) \o Ln(<<"rebuildUI()">>) \o Ln(<<"onSave()">>)

\* a script that is no card
NoCard == Ln(Asg("x", <<"y">>)) \o Ln(<<"onLoad">>)

UCMShips == <<"U","C","M"," ","S","h","i","p","s">>
PhrBox == <<"p","h","r"," ","b","o","x">>
Box == <<"B","o","x">>

Nick(s) == [has |-> TRUE, s |-> s]
NoNick == [has |-> FALSE, s |-> <<>>]
Guid(g) == [has |-> TRUE, g |-> g]
NoGuid == [has |-> FALSE, g |-> ""]

Object(parent, guid, nick) ==
    [parent |-> parent, has_guid |-> guid.has, guid |-> guid.g,
     has_nick |-> nick.has, nick |-> nick.s]

\* parent vectors of the forests of n objects in document order
RECURSIVE OnSpine(_, _, _)
OnSpine(p, j, a) == a = j \/ (j # 0 /\ OnSpine(p, p[j], a))

Shapes(n) == {p \in [1..n -> 0..(n - 1)] : \A i \in 1..n :
                 IF i = 1 THEN p[i] = 0 ELSE OnSpine(p, i - 1, p[i])}

AllKinds == [names |-> {Foo, Box, UCMShips, PhrBox, OldContent, UnnamedObject, <<>>},
             kinds |-> ImageKinds]
RepoWith(kinds) == [AllKinds EXCEPT !.kinds = kinds]

MaxNodes == 3
ChainLen == 15

GuidNames == <<"g1", "g2", "g3", "g4", "g5", "g6">>
ChainGuids == <<"d01", "d02", "d03", "d04", "d05", "d06", "d07", "d08", "d09", "d10",
                "d11", "d12", "d13", "d14", "d15", "d16", "d17", "d18", "d19", "d20">>

\* the kinds of object the forests are built from: a display name and a script
OldShip == [nick |-> Nick(OldContent), script |-> ShipFull]
UcmContainer == [nick |-> Nick(UCMShips), script |-> <<>>]
PhrShip == [nick |-> Nick(PhrBox), script |-> ShipFull]
OldContainer == [nick |-> Nick(OldContent), script |-> <<>>]
BoxShip == [nick |-> Nick(Box), script |-> ShipBare]
EmptyShip == [nick |-> Nick(<<>>), script |-> ShipBare]
AnonShip == [nick |-> NoNick, script |-> ShipBare]

\* forests of up to MaxNodes objects with unique ids, built from excluded
\* cards, faction containers and cards named after another faction; the
\* repository holds every image, or the card fronts only
NameDocs(t, l, r, m) ==
    \E n \in 1..MaxNodes : \E p \in Shapes(n) :
    \E k \in [1..n -> {OldShip, UcmContainer, PhrShip}] :
        /\ t = [i \in 1..n |-> Object(p[i], Guid(GuidNames[i]), k[i].nick)]
        /\ l = [i \in 1..n |-> k[i].script]
        /\ r \in {RepoWith(ImageKinds), RepoWith({"CardFrontImage"})}
        /\ m = MODE_BOTH

\* forests of up to MaxNodes cards with absent and repeated ids (ids
\* numbered in order of first use), of which at most one is replaced by an
\* excluded container
GuidDocs(t, l, r, m) ==
    \E n \in 1..MaxNodes : \E p \in Shapes(n) :
    \E g \in [1..n -> 0..n] : \E old \in 0..n :
    \E k \in {BoxShip} :
        /\ \A i \in 1..n : g[i] > 1 => \E j \in 1..(i - 1) : g[j] = g[i] - 1
        /\ t = [i \in 1..n |-> Object(p[i], IF g[i] = 0 THEN NoGuid ELSE Guid(GuidNames[g[i]]),
                                      IF i = old THEN OldContainer.nick ELSE k.nick)]
        /\ l = [i \in 1..n |-> IF i = old THEN OldContainer.script ELSE k.script]
        /\ r = RepoWith(ImageKinds)
        /\ m = MODE_BOTH

\* three cards of which some carry the empty string as id, or no id, or
\* no display name
EmptyGuidDocs(t, l, r, m) ==
    \E p \in {<<0, 1, 2>>, <<0, 1, 0>>, <<0, 0, 2>>} :
    \E g \in [1..Len(p) -> {NoGuid, Guid(""), Guid("g1"), Guid("g2")}] :
    \E k \in {<<BoxShip, BoxShip, BoxShip>>, <<AnonShip, BoxShip, BoxShip>>,
              <<BoxShip, AnonShip, BoxShip>>, <<EmptyShip, BoxShip, BoxShip>>} :
        /\ t = [i \in 1..Len(p) |-> Object(p[i], g[i], k[i].nick)]
        /\ l = [i \in 1..Len(p) |-> k[i].script]
        /\ r = RepoWith(ImageKinds)
        /\ m = MODE_BOTH

\* a single card in a container: every script, repository content and mode
ScriptDocs(t, l, r, m) ==
    \E body \in {ShipFull, ShipBare, ShipEmptyFaction, UpgradeFull, ShipAndUpgrade, NoCard} :
    \E nk \in {Nick(UCMShips), Nick(Box)} : \E own \in {Nick(Box), Nick(PhrBox), NoNick} :
        /\ t = <<Object(0, Guid("g1"), nk), Object(1, Guid("g2"), own)>>
        /\ l = <<<<>>, body>>
        /\ r \in {RepoWith(k) : k \in SUBSET ImageKinds}
        /\ m \in {MODE_SHIPS_ONLY, MODE_UPGRADES_ONLY, MODE_BOTH}

\* chains of up to ChainLen nested objects
DeepDocs(t, l, r, m) ==
    \E n \in 1..ChainLen :
    \E nk \in {Nick(Box), Nick(<<>>)} :
        /\ t = [i \in 1..n |-> Object(i - 1, Guid(ChainGuids[i]),
                                      IF i = 1 THEN Nick(UCMShips) ELSE nk)]
        /\ l = [i \in 1..n |-> ShipFull]
        /\ r \in {RepoWith(ImageKinds), RepoWith({})}
        /\ m = MODE_BOTH

\* a faction or excluded container holding a card, and a second branch
\* whose head declares no id or an id of its own and holds a card whose id
\* is absent, its own, or that of the first card; the second branch stands
\* beside the first container or inside it
IdlessDocs(t, l, r, m) ==
    \E p \in {<<0, 1, 0, 3>>, <<0, 1, 1, 3>>} :
    \E top \in {UcmContainer, OldContainer} :
    \E g3 \in {NoGuid, Guid("g3")} : \E g4 \in {NoGuid, Guid("g2"), Guid("g4")} :
    \E k3 \in {BoxShip, AnonShip} : \E k4 \in {BoxShip, PhrShip} :
        /\ t = <<Object(p[1], Guid("g1"), top.nick), Object(p[2], Guid("g2"), BoxShip.nick),
                 Object(p[3], g3, k3.nick), Object(p[4], g4, k4.nick)>>
        /\ l = <<top.script, BoxShip.script, k3.script, k4.script>>
        /\ r = RepoWith(ImageKinds)
        /\ m = MODE_BOTH

InitRun ==
    /\ phase = "start"
    /\ run = 1
    /\ stack = <<>>
    /\ hierarchy = EmptyDict
    /\ error_log = <<>>
    /\ extracted_data = <<>>
    /\ extracted_upgrade_data = <<>>
    /\ console = <<>>
    /\ checks = <<>>
    /\ result = FALSE
    /\ indexed = {}
    /\ visited = {}
    /\ lua_start = lua

\* an application of a pure function that has not returned; none in the
\* runs of the whole program
Call(fn, label, stmts, body, field) ==
    [fn |-> fn, label |-> label, stmts |-> stmts, body |-> body, field |-> field,
     done |-> FALSE, out |-> <<>>]

NoCall == Call("none", <<>>, <<>>, <<>>, "")

\* tts_Update_Script_V2.py is not running
V2Idle == [pc |-> "idle"]

Init ==
    /\ \/ NameDocs(tree, lua, repo, mode)
       \/ GuidDocs(tree, lua, repo, mode)
       \/ EmptyGuidDocs(tree, lua, repo, mode)
       \/ ScriptDocs(tree, lua, repo, mode)
       \/ DeepDocs(tree, lua, repo, mode)
       \/ IdlessDocs(tree, lua, repo, mode)
    /\ InitRun
    /\ call = NoCall
    /\ v2 = V2Idle

Spec == Init /\ [][Next]_vars

(***************************************************************************)
(* The pure functions on their own: the extractor, the faction classifier  *)
(* and the card classifiers are applied to inputs drawn from bounded sets. *)
(* call holds one application: the function, its arguments, and its        *)
(* result once it has returned.                                            *)
(***************************************************************************)
MaxWords == 2
MaxStatements == 2

Bio == <<"B","i","o">>
Bar == <<"B","a","r">>
Bobs == <<"B","o","b","'","s">>

\* the words labels are made of
LabelWords ==
    {UCM, Lower(UCM), <<"U","c","m">>, PHR, Shaltari, Scourge, Resistance, Bioficers,
     Neutral, Lower(Neutral), Bio, Lower(Bio), Box}

\* the words of a sequence, separated by blanks
RECURSIVE JoinWords(_)
JoinWords(ws) ==
    IF ws = <<>> THEN <<>>
    ELSE IF Len(ws) = 1 THEN ws[1]
    ELSE ws[1] \o <<" ">> \o JoinWords(Tail(ws))

Labels == {JoinWords(ws) : ws \in UNION {[1..n -> LabelWords] : n \in 0..MaxWords}}

\* the chunks the two card predicates look for
IndicatorChunks ==
    <<"rebuildUI()", "createModel", "cardFrontImage", "modelImage", "baseScale", "onSave()",
      "cardImage", "onLoad", "points", "CardImage", "ModelImage">>

\* the body made of the lines of IndicatorChunks picked by S
IndicatorBody(S) ==
    LET picked == SelectSeq(IndicatorChunks, LAMBDA c : c \in S)
    IN  [i \in 1..(2 * Len(picked)) |-> IF i % 2 = 1 THEN picked[(i + 1) \div 2] ELSE "\n"]

IndicatorBodies == {IndicatorBody(S) : S \in SUBSET {IndicatorChunks[k] : k \in 1..Len(IndicatorChunks)}}

\* a statement of a script body: its text, the variable it assigns and the
\* value it assigns
Statement(text, target, value) == [text |-> text, target |-> target, value |-> value]

Statements ==
    {Statement(Asg("name", Foo), "name", Foo),
     Statement(LocalAsg("name", Box), "name", Box),
     Statement(<<"ship_">> \o Asg("name", Bar), "ship_name", Bar),
     Statement(Asg("name", Bobs), "name", Bobs),
     Statement(<<"health", " ", "=", " ", "5">>, "health", <<"5">>),
     Statement(<<"max", "health", " ", "=", " ", "7">>, "maxhealth", <<"7">>),
     Statement(<<"local", " ", "sig", "=", "2", ".", "5">>, "sig", <<"2", ".", "5">>),
     Statement(Asg("modelImage", OldModel), "modelImage", OldModel),
     Statement(LocalAsg("cardImage", OldCard), "cardImage", OldCard)}

\* the body whose lines are the statements of a sequence
RECURSIVE BodyOf(_)
BodyOf(stmts) == IF stmts = <<>> THEN <<>> ELSE Ln(stmts[1].text) \o BodyOf(Tail(stmts))

StatementLists == UNION {[1..n -> Statements] : n \in 0..MaxStatements}

Fields == {PARAMETERS[k] : k \in 1..Len(PARAMETERS)} \cup {UPGRADE_PARAMETERS[k] : k \in 1..Len(UPGRADE_PARAMETERS)}

FnCalls ==
    {Call("determine_faction_from_container", l, <<>>, <<>>, "") : l \in Labels}
    \cup {Call("classify", <<>>, <<>>, b, "") : b \in IndicatorBodies}
    \cup {Call("extract_parameter", <<>>, st, BodyOf(st), f) : st \in StatementLists, f \in Fields}

\* the variables of the walker, which no application of a pure function
\* touches
Walker == <<tree, lua, repo, mode, phase, run, stack, hierarchy, Logs, result, indexed, visited, lua_start>>

\* the card classifiers on one object whose LuaScript is the body, and the
\* walker's iteration on that object
Classified(content, p) ==
    [ship |-> is_ship_card_script(content),
     upgrade |-> is_upgrade_card_script(content),
     kind |-> p.kind,
     records |-> Len(p.ships) + Len(p.upgrades)]

apply_determine_faction ==
    /\ call.fn = "determine_faction_from_container"
    /\ ~call.done
    /\ call' = [call EXCEPT !.done = TRUE, !.out = determine_faction_from_container(call.label)]
    /\ UNCHANGED <<Walker, v2>>

apply_classify ==
    /\ call.fn = "classify"
    /\ ~call.done
    /\ call' = [call EXCEPT !.done = TRUE,
                            !.out = Classified(lua[1], ProcessObject(1, <<>>, hierarchy, repo, mode))]
    /\ UNCHANGED <<Walker, v2>>

apply_extract_parameter ==
    /\ call.fn = "extract_parameter"
    /\ ~call.done
    /\ call' = [call EXCEPT !.done = TRUE, !.out = extract_parameter(call.body, call.field)]
    /\ UNCHANGED <<Walker, v2>>

FnNext ==
    \/ apply_determine_faction
    \/ apply_classify
    \/ apply_extract_parameter

FnInit ==
    /\ call \in FnCalls
    /\ tree = <<Object(0, Guid("g1"), Nick(Box))>>
    /\ lua = <<call.body>>
    /\ repo = RepoWith(ImageKinds)
    /\ mode \in IF call.fn = "classify" THEN {MODE_SHIPS_ONLY, MODE_UPGRADES_ONLY, MODE_BOTH}
                ELSE {MODE_BOTH}
    /\ InitRun
    /\ v2 = V2Idle

FnSpec == FnInit /\ [][FnNext]_vars

(***************************************************************************)
(* The V2 script (src/Write Data Script/tts_Update_Script_V2.py).  v2 is   *)
(* the state of one run of process_file:                                   *)
(*   data    the document: has_states ("ObjectStates" is a key of it) and  *)
(*           nodes, its objects in document order, each with parent, GUID  *)
(*           ("" when absent or empty: o.get('GUID') is falsy for both),   *)
(*           Nickname, LuaScript (<<>> when absent), tile (Name is         *)
(*           'Custom_Tile' and the object has a 'CustomImage') and         *)
(*           ImageURL;                                                     *)
(*   MODE, repo   the mode selected and the asset repository;              *)
(*   hier, error_log, extracted_data   the index and the module's logs;    *)
(*   visited   the objects the rewriting pass iterated over;               *)
(*   printed, files   the lines printed and the files written.             *)
(***************************************************************************)
V2_GITHUB_RAW_BASE_URL == <<"https://", "raw.githubusercontent.com/TemporalDistoriton/DropfleetTTS/main">>
SAVE_CHANGES == TRUE
V2_MAX_DEPTH == 10
V2_PATH_STEPS == 10

\* o['ContainedObjects'] (o = 0: data.get('ObjectStates', []))
V2Contained(nodes, o) == SelectSeq([i \in 1..Len(nodes) |-> i], LAMBDA i : nodes[i].parent = o)

\* V2 get_github_image_url
v2_get_github_image_url(MODE, faction, name, image_type) ==
    V2_GITHUB_RAW_BASE_URL \o <<"/">>
        \o quote(IF MODE = "ships"
                 THEN faction \o <<"/">> \o sanitize_filename(name) \o <<"_", image_type, ".png">>
                 ELSE faction \o <<"/", "Upgrades", "/">> \o sanitize_filename(name) \o <<".png">>)

\* V2 check_image_exists: the HEAD request's answer and the URL
v2_check_image_exists(r, MODE, faction, name, image_type) ==
    [exists |-> RepoHas(r, faction, name, IF MODE = "ships" THEN image_type ELSE "Upgrade"),
     url |-> v2_get_github_image_url(MODE, faction, name, image_type)]

\* (?:local\s+name\s*=\s*|name\s*=\s*)['"](.+?)['"]  at i
V2NameMatch(s, i) == LazyTail(s, PrefixEnd(s, i, "name"))

\* m.group(1).strip() if m else None, for the leftmost of the matches at `hits`
V2Name(content, hits) ==
    IF hits = {} THEN None ELSE Group1(content, V2NameMatch(content, Least(hits)))

\* V2 extract_parameter
v2_extract_parameter(content, param) ==
    IF param = "name"
    THEN V2Name(content, {i \in MatchStarts(content, 1, "name") : V2NameMatch(content, i).end # 0})
    ELSE None

\* (p\s*=\s*['"])[^'"]+(['"])  at i, a being the index after the prefix
V2UrlGroup(s, a) ==
    IF a = 0 \/ a > Len(s) THEN NoMatch
    ELSE IF ~IsQuote(s[a]) THEN NoMatch
    ELSE Quoted(a + 1, a + 2, NextQuote(s, a + 1, {}))

V2UrlMatch(s, i, p) == V2UrlGroup(s, AssignEnd(s, i, p))

\* the leftmost match of the URL pattern of field p at or after i
V2UrlLeftmost(s, p, hits) == IF hits = {} THEN NoMatch ELSE V2UrlMatch(s, Least(hits), p)
V2UrlSearch(s, p, i) ==
    V2UrlLeftmost(s, p, {j \in MatchStarts(s, i, p) : V2UrlMatch(s, j, p).end # 0})

\* re.sub(pattern of p, rf"\1{url}\2", s) from index i on, m being the
\* leftmost match at or after i
RECURSIVE V2SubFrom(_, _, _, _, _)
V2SubFrom(p, url, s, i, m) ==
    IF m.end = 0 THEN SubSeq(s, i, Len(s))
    ELSE SubSeq(s, i, m.g1 - 1) \o url \o <<s[m.end - 1]>>
             \o V2SubFrom(p, url, s, m.end, V2UrlSearch(s, p, m.end))

V2Sub(p, url, s) == V2SubFrom(p, url, s, 1, V2UrlSearch(s, p, 1))

\* V2 should_skip: an excluded name occurs in a name of the path
should_skip(path_list) ==
    \E k \in 1..Len(path_list) : \E ign \in IGNORED_CONTAINERS : Contains(path_list[k], ign)

\* V2 determine_faction
determine_faction(name) ==
    LET hits == {k \in 1..Len(VALID_FACTIONS) : Contains(Lower(name), LowerFactions[k])}
    IN  IF hits # {} THEN VALID_FACTIONS[Least(hits)] ELSE Neutral

\* V2 build_hierarchy, from the k-th object of the list `states` on
RECURSIVE build_hierarchy(_, _, _, _, _, _)
RECURSIVE V2Indexed(_, _, _, _, _)
build_hierarchy(nodes, states, k, hier, parent, depth) ==
    IF depth > V2_MAX_DEPTH \/ k > Len(states) THEN hier
    ELSE build_hierarchy(nodes, states, k + 1,
                         V2Indexed(nodes, states[k], hier, parent, depth), parent, depth)

\* the loop body of build_hierarchy for object o
V2Indexed(nodes, o, hier, parent, depth) ==
    IF nodes[o].GUID = "" THEN hier
    ELSE build_hierarchy(nodes, V2Contained(nodes, o), 1,
                         DictPut(hier, nodes[o].GUID,
                                 [parent |-> parent, nickname |-> nodes[o].Nickname]),
                         nodes[o].GUID, depth + 1)

\* the for-loop of get_container_path with k iterations left
RECURSIVE V2PathLoop(_, _, _, _)
V2PathLoop(hier, cur, path, k) ==
    IF k = 0 \/ cur \notin DOMAIN hier THEN path
    ELSE IF hier[cur].parent = NoneGuid THEN path
    ELSE V2PathLoop(hier, hier[cur].parent,
                    IF hier[hier[cur].parent].nickname # <<>>
                    THEN Append(path, hier[hier[cur].parent].nickname) ELSE path,
                    k - 1)

\* V2 get_container_path
get_container_path(hier, guid) == Reverse(V2PathLoop(hier, guid, <<>>, V2_PATH_STEPS))

\* next((determine_faction(c) for c in cont_path if ... != 'Neutral'), 'Neutral')
V2PathFaction(cont_path) ==
    LET hits == {k \in 1..Len(cont_path) : determine_faction(cont_path[k]) # Neutral}
    IN  IF hits = {} THEN Neutral ELSE determine_faction(cont_path[Least(hits)])

\* `x or o.get('Nickname', '')`
V2Or(x, nickname) == IF x = None \/ x = <<>> THEN nickname ELSE x

\* the state of the rewriting pass with object o iterated over
V2Visited(acc, o) == [acc EXCEPT !.visited = @ \cup {o}]

V2Line(exists, line) == IF exists THEN <<>> ELSE <<line>>

\* the body of `if lua and is_ship_card_script(lua)` in update_ships once
\* the container is not skipped: card and model are the answers of
\* check_image_exists
V2ShipUpdate(o, lua_script, name_val, faction, card, model, acc) ==
    [acc EXCEPT
        !.lua[o] = IF model.exists
                   THEN V2Sub("modelImage", model.url,
                              IF card.exists THEN V2Sub("cardFrontImage", card.url, lua_script)
                              ELSE lua_script)
                   ELSE IF card.exists THEN V2Sub("cardFrontImage", card.url, lua_script)
                   ELSE lua_script,
        !.error_log = @ \o V2Line(card.exists, [line |-> "Missing ship cardFrontImage", name |-> name_val])
                        \o V2Line(model.exists, [line |-> "Missing ship modelImage", name |-> name_val]),
        !.extracted_data = Append(@, [name |-> name_val, faction |-> faction,
                                      card_url |-> card.url, model_url |-> model.url, node |-> o]),
        !.printed = @ \o <<"Processing ship", "DEBUG: HEAD", "DEBUG: HEAD">>]

V2ShipChecked(o, lua_script, name_val, faction, r, acc) ==
    V2ShipUpdate(o, lua_script, name_val, faction,
                 v2_check_image_exists(r, "ships", faction, name_val, "CardFrontImage"),
                 v2_check_image_exists(r, "ships", faction, name_val, "ModelImage"), acc)

\* V2 update_ships, from the k-th object of the list `states` on
RECURSIVE update_ships(_, _, _, _, _, _)
RECURSIVE V2ShipVisit(_, _, _, _, _, _)
update_ships(nodes, states, k, hier, r, acc) ==
    IF k > Len(states) THEN acc
    ELSE update_ships(nodes, states, k + 1, hier, r,
                      V2ShipVisit(nodes, states[k], get_container_path(hier, nodes[states[k]].GUID),
                                  hier, r, V2Visited(acc, states[k])))

\* the loop body of update_ships for object o; `continue` leaves out the
\* recursion into the object's ContainedObjects
V2ShipVisit(nodes, o, cont_path, hier, r, acc) ==
    IF nodes[o].LuaScript # <<>> /\ is_ship_card_script(nodes[o].LuaScript)
    THEN IF should_skip(cont_path) THEN acc
         ELSE update_ships(nodes, V2Contained(nodes, o), 1, hier, r,
                           V2ShipChecked(o, nodes[o].LuaScript,
                                         V2Or(v2_extract_parameter(nodes[o].LuaScript, "name"),
                                              nodes[o].Nickname),
                                         V2PathFaction(cont_path), r, acc))
    ELSE update_ships(nodes, V2Contained(nodes, o), 1, hier, r, acc)

\* the body of `if u.get('Name')=='Custom_Tile' and 'CustomImage' in u`
V2TileUpdate(u, name_val, faction, chk, acc) ==
    IF chk.exists
    THEN [acc EXCEPT !.urls[u] = chk.url,
                     !.extracted_data = Append(@, [name |-> name_val, faction |-> faction,
                                                   new_url |-> chk.url, node |-> u]),
                     !.printed = @ \o <<"Processing upgrade", "DEBUG: HEAD", "Updating URLs to">>]
    ELSE [acc EXCEPT !.error_log = Append(@, [line |-> "Missing upgrade image", name |-> name_val]),
                     !.printed = @ \o <<"Processing upgrade", "DEBUG: HEAD">>]

\* `for u in o['ContainedObjects']` of update_upgrades, from the k-th on
RECURSIVE V2Tiles(_, _, _, _, _, _)
V2Tiles(nodes, us, k, faction, r, acc) ==
    IF k > Len(us) THEN acc
    ELSE V2Tiles(nodes, us, k + 1, faction, r,
                 IF nodes[us[k]].tile
                 THEN V2TileUpdate(us[k], nodes[us[k]].Nickname, faction,
                                   v2_check_image_exists(r, "upgrades", faction,
                                                         nodes[us[k]].Nickname, "Upgrade"),
                                   acc)
                 ELSE acc)

\* `if 'upgrade' in nick.lower() and 'ContainedObjects' in o`
V2UpgradeContainer(nodes, o, r, acc) ==
    IF Contains(Lower(nodes[o].Nickname), <<"u","p","g","r","a","d","e">>) /\ V2Contained(nodes, o) # <<>>
    THEN V2Tiles(nodes, V2Contained(nodes, o), 1, determine_faction(nodes[o].Nickname), r,
                 [acc EXCEPT !.printed = Append(@, "Found upgrade container")])
    ELSE acc

\* V2 update_upgrades, from the k-th object of the list `states` on
RECURSIVE update_upgrades(_, _, _, _, _, _)
update_upgrades(nodes, states, k, hier, r, acc) ==
    IF k > Len(states) THEN acc
    ELSE update_upgrades(nodes, states, k + 1, hier, r,
             update_upgrades(nodes, V2Contained(nodes, states[k]), 1, hier, r,
                             V2UpgradeContainer(nodes, states[k], r, V2Visited(acc, states[k]))))

\* the part of v2 the rewriting pass works on
V2Acc(v) ==
    [lua |-> v.lua, urls |-> v.urls, error_log |-> v.error_log,
     extracted_data |-> v.extracted_data, visited |-> v.visited, printed |-> v.printed]

V2With(v, acc, pc) ==
    [v EXCEPT !.lua = acc.lua, !.urls = acc.urls, !.error_log = acc.error_log,
              !.extracted_data = acc.extracted_data, !.visited = acc.visited,
              !.printed = acc.printed, !.pc = pc]

\* process_file: json.load and states = data.get('ObjectStates', [])
process_file ==
    /\ v2.pc = "start"
    /\ v2' = [v2 EXCEPT !.pc = "build", !.printed = Append(@, "Processing save file"),
                        !.states = IF v2.data.has_states THEN V2Contained(v2.data.nodes, 0) ELSE <<>>]
    /\ UNCHANGED <<Walker, call>>

\* process_file: hier = {}; build_hierarchy(states, hier)
process_file_build ==
    /\ v2.pc = "build"
    /\ v2' = [v2 EXCEPT !.pc = "update",
                        !.hier = build_hierarchy(v2.data.nodes, v2.states, 1, EmptyDict, NoneGuid, 0)]
    /\ UNCHANGED <<Walker, call>>

\* process_file: update_ships(states, hier) or update_upgrades(states, hier)
process_file_update ==
    /\ v2.pc = "update"
    /\ v2' = V2With(v2,
                    IF v2.MODE = "ships"
                    THEN update_ships(v2.data.nodes, v2.states, 1, v2.hier, v2.repo, V2Acc(v2))
                    ELSE update_upgrades(v2.data.nodes, v2.states, 1, v2.hier, v2.repo, V2Acc(v2)),
                    "report")
    /\ UNCHANGED <<Walker, call>>

\* create_report: nothing without data; else the Excel file, or the CSV
\* file when to_excel raises
create_report ==
    /\ v2.pc = "report"
    /\ \E saved \in {"Excel saved", "CSV saved"} :
        v2' = IF v2.extracted_data = <<>>
              THEN [v2 EXCEPT !.pc = "errors", !.printed = Append(@, "No data to write.")]
              ELSE [v2 EXCEPT !.pc = "errors", !.printed = Append(@, saved),
                              !.files = @ \cup {IF saved = "Excel saved" THEN "UpdateData.xlsx"
                                                 ELSE "UpdateData.csv"}]
    /\ UNCHANGED <<Walker, call>>

\* write_errors: update_errors.log when there are error lines
write_errors ==
    /\ v2.pc = "errors"
    /\ v2' = IF v2.error_log = <<>> THEN [v2 EXCEPT !.pc = "save"]
             ELSE [v2 EXCEPT !.pc = "save", !.printed = Append(@, "Errors logged"),
                             !.files = @ \cup {"update_errors.log"}]
    /\ UNCHANGED <<Walker, call>>

\* process_file: `if SAVE_CHANGES:` the document is written
process_file_save ==
    /\ v2.pc = "save"
    /\ v2' = IF SAVE_CHANGES
             THEN [v2 EXCEPT !.pc = "done", !.printed = Append(@, "Modified file written"),
                             !.files = @ \cup {"_modified.json"}]
             ELSE [v2 EXCEPT !.pc = "done"]
    /\ UNCHANGED <<Walker, call>>

V2Next ==
    \/ process_file
    \/ process_file_build
    \/ process_file_update
    \/ create_report
    \/ write_errors
    \/ process_file_save

\* the documents of the V2 runs
V2MaxNodes == 3

UcmUpgrades == <<"U","C","M"," ","U","p","g","r","a","d","e","s">>

V2Object(parent, guid, nickname, script, tile) ==
    [parent |-> parent, GUID |-> guid, Nickname |-> nickname, LuaScript |-> script,
     tile |-> tile, ImageURL |-> OldCard]

\* the kinds of object the documents are made of: a ship card, an upgrade
\* container, an upgrade tile, an excluded container
V2Kinds ==
    {[Nickname |-> PhrBox, LuaScript |-> ShipFull, tile |-> FALSE],
     [Nickname |-> UcmUpgrades, LuaScript |-> <<>>, tile |-> FALSE],
     [Nickname |-> Foo, LuaScript |-> <<>>, tile |-> TRUE],
     [Nickname |-> OldContent, LuaScript |-> <<>>, tile |-> FALSE]}

V2ChainLen == 12

\* a chain of n nested ship cards
V2Chain(n) ==
    [has_states |-> TRUE,
     nodes |-> [i \in 1..n |-> V2Object(i - 1, ChainGuids[i], PhrBox, ShipFull, FALSE)]]

\* no array, the forests of up to V2MaxNodes objects, and the chains of up
\* to V2ChainLen ship cards that the forests do not hold
V2Documents ==
    {[has_states |-> FALSE, nodes |-> <<>>]}
    \cup {V2Chain(n) : n \in (V2MaxNodes + 1)..V2ChainLen}
    \cup UNION {{[has_states |-> TRUE,
                  nodes |-> [i \in 1..n |-> V2Object(p[i], GuidNames[i], k[i].Nickname,
                                                     k[i].LuaScript, k[i].tile)]] :
                     p \in Shapes(n), k \in [1..n -> V2Kinds]} : n \in 0..V2MaxNodes}

V2Start(data, MODE, r) ==
    [pc |-> "start", data |-> data, MODE |-> MODE, repo |-> r, states |-> <<>>,
     hier |-> EmptyDict,
     lua |-> [i \in 1..Len(data.nodes) |-> data.nodes[i].LuaScript],
     urls |-> [i \in 1..Len(data.nodes) |-> data.nodes[i].ImageURL],
     error_log |-> <<>>, extracted_data |-> <<>>, visited |-> {}, printed |-> <<>>, files |-> {}]

V2Init ==
    /\ \E data \in V2Documents : \E MODE \in {"ships", "upgrades"} :
       \E r \in {RepoWith(ImageKinds), RepoWith({"CardFrontImage"})} :
           v2 = V2Start(data, MODE, r)
    /\ tree = <<>>
    /\ lua = <<>>
    /\ repo = RepoWith(ImageKinds)
    /\ mode = MODE_BOTH
    /\ InitRun
    /\ call = NoCall

V2Spec == V2Init /\ [][V2Next]_vars

(***************************************************************************)
(* Vocabulary of the properties.                                           *)
(***************************************************************************)
\* the index is complete: the walker runs or has returned
IndexDone == phase \in {"walk", "done"}

\* obj.get("GUID", "")
ObjGuid(n) == IF tree[n].has_guid THEN tree[n].guid ELSE ""

ShipRecords == {extracted_data[k] : k \in 1..Len(extracted_data)}
UpgradeRecords == {extracted_upgrade_data[k] : k \in 1..Len(extracted_upgrade_data)}
RecordsOf(n) == {r \in ShipRecords : r.node = n}
UpgradeRecordsOf(n) == {r \in UpgradeRecords : r.node = n}
ErrorsOf(n) == SelectSeq(error_log, LAMBDA e : e.node = n)
ChecksOf(n) == {k \in 1..Len(checks) : checks[k].node = n}

\* n or one of its ancestors is named as an excluded container
Excluded(n) ==
    \E a \in Ancestors(n) \cup {n} : tree[a].has_nick /\ tree[a].nick \in IGNORED_CONTAINERS

\* the proper ancestors of n, root first
RECURSIVE AncestorChain(_)
AncestorChain(n) ==
    IF tree[n].parent = 0 THEN <<>>
    ELSE Append(AncestorChain(tree[n].parent), tree[n].parent)

\* the non-empty display names of the proper ancestors of n, root first
AncestorNames(n) ==
    SelectSeq([i \in 1..Len(AncestorChain(n)) |-> NicknameOr(AncestorChain(n)[i], <<>>)],
              LAMBDA x : x # <<>>)

\* every node declares an id and no two nodes declare the same
UniqueIds ==
    \A n \in Nodes : tree[n].has_guid /\ \A m \in Nodes : m # n => tree[m].guid # tree[n].guid
NonEmptyIds == \A n \in Nodes : tree[n].guid # ""

\* the nodes the indexer records: they declare a GUID, as all their
\* ancestors do, and lie within the depth cap
Reached(n) ==
    /\ tree[n].has_guid
    /\ DepthOf(n) <= BUILD_MAX_DEPTH
    /\ \A a \in Ancestors(n) : tree[a].has_guid

\* a single chain of nested objects
IsChain == \A n \in Nodes : tree[n].parent = n - 1

\* the faction of the claim: the first non-Neutral classification along
\* the resolved path, else the classification of the own display name
ExpectedFaction(n) ==
    LET path == find_container_path(hierarchy, ObjGuid(n))
        cls == [i \in 1..Len(path) |-> determine_faction_from_container(path[i])]
        hit == {i \in 1..Len(path) : cls[i] # Neutral}
    IN  IF hit = {} THEN determine_faction_from_container(NicknameOr(n, UnnamedObject))
        ELSE cls[Least(hit)]

CardFrontExists(r) == RepoHas(repo, r.faction, r.name, "CardFrontImage")
ModelExists(r) == RepoHas(repo, r.faction, r.name, "ModelImage")
CanonicalUrl(r, image_type) == get_github_image_url(r.faction, r.name, image_type, FALSE)

\* the kinds and images of the error-log lines about n, in order
ErrorKinds(n) == [k \in 1..Len(ErrorsOf(n)) |-> <<ErrorsOf(n)[k].line.kind, ErrorsOf(n)[k].line.image>>]

\* the ship name the walker uses for n: the name of the script, else the
\* display name
ShipNameOf(n) ==
    LET name == extract_parameter(lua_start[n], "name")
    IN  IF name \in {<<>>, Unknown, UnnamedModel} THEN NicknameOr(n, UnnamedObject) ELSE name

\* n was handled as a ship card in this run
HandledAsShip(n) ==
    /\ n \in visited
    /\ ~Excluded(n)
    /\ lua_start[n] # <<>>
    /\ ~should_skip_container(find_container_path(hierarchy, ObjGuid(n)))
    /\ mode \in {MODE_SHIPS_ONLY, MODE_BOTH}
    /\ is_ship_card_script(lua_start[n])

(***************************************************************************)
(* C1.  Exclusion is a branch cut: a node whose display name is an entry   *)
(* of IGNORED_CONTAINERS, and every descendant of it, produces no ship or  *)
(* upgrade record, no error-log line and no asset-existence check, and     *)
(* keeps its LuaScript.                                                    *)
(***************************************************************************)
C1_BranchCut ==
    \A n \in Nodes :
        Excluded(n) =>
            /\ RecordsOf(n) = {}
            /\ UpgradeRecordsOf(n) = {}
            /\ ErrorsOf(n) = <<>>
            /\ ChecksOf(n) = {}
            /\ lua[n] = lua_start[n]

\* a finished walk that met an excluded card with a card inside it, and
\* recorded another card
C1_Witness ==
    /\ phase = "done"
    /\ extracted_data # <<>>
    /\ \E n, d \in Nodes :
        /\ tree[n].nick \in IGNORED_CONTAINERS
        /\ n \in visited
        /\ is_ship_card_script(lua[n])
        /\ n \in Ancestors(d)
        /\ is_ship_card_script(lua[d])
        /\ d \notin visited

(***************************************************************************)
(* C2 (as stated).  On an indexed tree with unique ids,                    *)
(* find_container_path(index, id of n) is the sequence of the non-empty    *)
(* display names of all proper ancestors of n, root first.                 *)
(***************************************************************************)
C2_AsStated ==
    (IndexDone /\ UniqueIds) =>
        \A n \in Nodes : find_container_path(hierarchy, tree[n].guid) = AncestorNames(n)

(***************************************************************************)
(* C2 (amended).  On an indexed tree whose nodes all declare distinct      *)
(* non-empty ids, find_container_path(index, id of n) is the sequence of   *)
(* the non-empty display names of all proper ancestors of n, root first,   *)
(* for every node n at depth at most 10; for a deeper node, which the      *)
(* index does not hold, it is the empty path.                              *)
(***************************************************************************)
C2_ResolvedPath ==
    (IndexDone /\ UniqueIds /\ NonEmptyIds) =>
        \A n \in Nodes :
            find_container_path(hierarchy, tree[n].guid) =
                IF DepthOf(n) <= BUILD_MAX_DEPTH THEN AncestorNames(n) ELSE <<>>

\* a node ten containers deep whose path holds all ten names, root first
C2_Witness ==
    /\ phase = "done"
    /\ UniqueIds /\ NonEmptyIds
    /\ \E n \in Nodes :
        /\ DepthOf(n) = BUILD_MAX_DEPTH
        /\ Len(find_container_path(hierarchy, tree[n].guid)) = BUILD_MAX_DEPTH
        /\ find_container_path(hierarchy, tree[n].guid)[1] = UCMShips
        /\ find_container_path(hierarchy, tree[n].guid)[2] = Box

(***************************************************************************)
(* C3 (as stated).  After indexing, every node that declares a GUID has    *)
(* an entry under that GUID whose parent_guid is the GUID of its           *)
(* immediate parent (None at top level) and whose nickname is its          *)
(* Nickname ("" if absent).                                                *)
(***************************************************************************)
C3_AsStated ==
    IndexDone =>
        \A n \in Nodes :
            tree[n].has_guid =>
                /\ tree[n].guid \in DOMAIN hierarchy
                /\ hierarchy[tree[n].guid] =
                       [parent_guid |-> IF tree[n].parent = 0 THEN NoneGuid
                                        ELSE IF tree[tree[n].parent].has_guid
                                        THEN tree[tree[n].parent].guid ELSE NoneGuid,
                        nickname |-> NicknameOr(n, <<>>)]

(***************************************************************************)
(* C3 (amended).  After indexing, the index holds exactly the GUIDs of     *)
(* the nodes that declare a GUID, lie at depth at most 10 and have only    *)
(* GUID-declaring ancestors.  For such a node, unless a later such node    *)
(* (in document order) declares the same GUID, the entry's parent_guid is  *)
(* the GUID of the immediate parent (None at top level and when the        *)
(* parent's GUID is the empty string) and its nickname is the node's       *)
(* Nickname ("" if absent).                                                *)
(***************************************************************************)
C3_IndexEntries ==
    IndexDone =>
        /\ DOMAIN hierarchy = {tree[n].guid : n \in {m \in Nodes : Reached(m)}}
        /\ \A n \in Nodes :
            (Reached(n) /\ \A m \in Nodes : (m > n /\ Reached(m)) => tree[m].guid # tree[n].guid)
            => hierarchy[tree[n].guid] =
                   [parent_guid |-> IF tree[n].parent = 0 \/ tree[tree[n].parent].guid = ""
                                    THEN NoneGuid ELSE tree[tree[n].parent].guid,
                    nickname |-> NicknameOr(n, <<>>)]

\* an indexed node without a Nickname inside a container: its entry names
\* the container and the empty nickname
C3_Witness ==
    /\ IndexDone
    /\ \E n \in Nodes :
        /\ Reached(n)
        /\ tree[n].parent # 0
        /\ ~tree[n].has_nick
        /\ hierarchy[tree[n].guid].parent_guid = tree[tree[n].parent].guid
        /\ hierarchy[tree[n].guid].nickname = <<>>

(***************************************************************************)
(* C4 (as stated).  On a chain nested 15 levels deep, both passes handle   *)
(* only the nodes of the first 10 levels.                                  *)
(***************************************************************************)
C4_AsStated ==
    (phase = "done" /\ IsChain /\ Len(tree) >= 15) =>
        /\ indexed = {n \in Nodes : DepthOf(n) + 1 <= 10}
        /\ visited = {n \in Nodes : DepthOf(n) + 1 <= 10}

(***************************************************************************)
(* C4 (amended).  Depth guard: both passes handle the nodes of the first   *)
(* 11 levels (depth 0 to 10) only.  A node at a deeper level is neither    *)
(* indexed nor visited, gets no index entry (ids being unique), produces   *)
(* no record and is not modified; on a chain of GUID-declaring nodes       *)
(* without excluded names, exactly the nodes at depth 0 to 10 are indexed  *)
(* and visited, and both passes return.                                    *)
(***************************************************************************)
C4_DepthGuard ==
    phase = "done" =>
        /\ \A n \in Nodes :
            DepthOf(n) > WALK_MAX_DEPTH =>
                /\ n \notin indexed
                /\ n \notin visited
                /\ UniqueIds => tree[n].guid \notin DOMAIN hierarchy
                /\ RecordsOf(n) = {}
                /\ UpgradeRecordsOf(n) = {}
                /\ lua[n] = lua_start[n]
        /\ (IsChain /\ UniqueIds /\ \A n \in Nodes : ~Excluded(n)) =>
            /\ indexed = {n \in Nodes : DepthOf(n) <= BUILD_MAX_DEPTH}
            /\ visited = {n \in Nodes : DepthOf(n) <= WALK_MAX_DEPTH}

\* a finished run on a chain of 15: the 11th node is indexed, visited and
\* recorded, the 12th is not
C4_Witness ==
    /\ phase = "done"
    /\ IsChain
    /\ Len(tree) >= 15
    /\ \E n \in Nodes :
        /\ DepthOf(n) = WALK_MAX_DEPTH
        /\ n \in indexed /\ n \in visited
        /\ RecordsOf(n) # {}
        /\ (n + 1) \notin indexed /\ (n + 1) \notin visited
        /\ RecordsOf(n + 1) = {}

\* an upper bound on the steps the program has left: the runs to come, the
\* phases to come in this run, and in a pass two for every object not yet
\* iterated and one for every call that has not returned
StepsPerRun == 4 * Len(tree) + 10
StepsLeft ==
    (MaxRuns - run) * StepsPerRun
    + CASE phase = "start" -> 4 * Len(tree) + 9
        [] phase = "index" -> 2 * Len(tree) + 6 + 2 * (Len(tree) - Cardinality(indexed)) + Len(stack)
        [] phase = "walk" -> 3 + 2 * (Len(tree) - Cardinality(visited)) + Len(stack)
        [] phase = "done" -> 1

\* the program has returned or can take a step (the for-loop body of the
\* walker can be taken whenever its loop condition holds)
CanStep ==
    \/ phase = "done"
    \/ phase = "walk" /\ stack # <<>> /\ Top.i <= Len(Top.objs)
    \/ ENABLED (main_build \/ build_container_hierarchy \/ build_return
                \/ main_process \/ process_return \/ main_done)

(***************************************************************************)
(* C5.  The indexing pass and the walker pass terminate on every input:    *)
(* the program can always take a step until it has returned, and every     *)
(* step lowers a bound on the steps left, which never falls below zero;    *)
(* find_container_path takes at most 10 upward steps and returns at most   *)
(* 10 names on every index, one with a cyclic parent_guid chain included.  *)
(***************************************************************************)
C5_Terminates ==
    /\ [](\A n \in Nodes :
            /\ FindPathLoop(hierarchy, ObjGuid(n), <<>>, 0, PATH_MAX_STEPS).steps <= 10
            /\ Len(find_container_path(hierarchy, ObjGuid(n))) <= 10)
    /\ [](CanStep /\ StepsLeft >= 0)
    /\ [][StepsLeft' < StepsLeft]_vars

\* an entry that is its own parent: the path takes all 10 steps
C5_Witness ==
    /\ phase = "done"
    /\ \E g \in DOMAIN hierarchy :
        /\ hierarchy[g].parent_guid = g
        /\ FindPathLoop(hierarchy, g, <<>>, 0, PATH_MAX_STEPS).steps = 10
        /\ Len(find_container_path(hierarchy, g)) = 10

(***************************************************************************)
(* C6.  The faction recorded for a card is the classification of the       *)
(* first name of the resolved container path (root first) that is not      *)
(* Neutral, else the classification of the node's own display name; it is  *)
(* one of the seven factions.                                              *)
(***************************************************************************)
C6_Faction ==
    \A r \in ShipRecords \cup UpgradeRecords :
        /\ r.faction = ExpectedFaction(r.node)
        /\ \E i \in 1..Len(VALID_FACTIONS) : r.faction = VALID_FACTIONS[i]

\* a card named after PHR under a PHR container under a UCM container is
\* recorded as UCM
C6_Witness ==
    \E r \in ShipRecords :
        /\ find_container_path(hierarchy, ObjGuid(r.node)) = <<UCMShips, PhrBox>>
        /\ determine_faction_from_container(r.object_name) = PHR
        /\ r.faction = UCM

C8_NoImage ==
    \A n \in Nodes :
        (/\ HandledAsShip(n)
         /\ ~RepoHas(repo, ExpectedFaction(n), ShipNameOf(n), "CardFrontImage")
         /\ ~RepoHas(repo, ExpectedFaction(n), ShipNameOf(n), "ModelImage"))
        => /\ update_ship_card_script(repo, lua_start[n], ExpectedFaction(n), ShipNameOf(n),
                                      NicknameOr(n, UnnamedObject)).script = lua_start[n]
           /\ lua[n] = lua_start[n]
           /\ ErrorKinds(n) = << <<"ERROR", "CardFrontImage">>, <<"ERROR", "ModelImage">>,
                                 <<"SKIPPING", "">> >>
           /\ Cardinality(RecordsOf(n)) = 1
           /\ \A r \in RecordsOf(n) :
                r.new_model_url = NotUpdated /\ r.new_card_front_url = NotUpdated

\* a ship without images whose faction literal differs from the faction
\* of its container
C8_Witness ==
    \E r \in ShipRecords :
        /\ ~CardFrontExists(r) /\ ~ModelExists(r)
        /\ HandledAsShip(r.node)
        /\ r.faction = UCM
        /\ RewriteShip(lua_start[r.node], FALSE, FALSE, r.faction, r.name).script # lua_start[r.node]
        /\ lua[r.node] = lua_start[r.node]
        /\ Len(ErrorsOf(r.node)) = 3

(***************************************************************************)
(* C9 (as stated).  Rewriting is idempotent: each rewriter applied to its  *)
(* own output with the same faction and name returns the same body, and a  *)
(* second walker pass over the rewritten tree changes no LuaScript and     *)
(* returns modified = False.                                               *)
(***************************************************************************)
C9_Idempotent ==
    /\ \A r \in ShipRecords :
        LET once == update_ship_card_script(repo, lua_start[r.node], r.faction, r.name,
                                            r.object_name).script
        IN  update_ship_card_script(repo, once, r.faction, r.name, r.object_name).script = once
    /\ \A r \in UpgradeRecords :
        LET once == update_upgrade_card_script(repo, lua_start[r.node], r.faction, r.name,
                                               r.object_name).script
        IN  update_upgrade_card_script(repo, once, r.faction, r.name, r.object_name).script = once
    /\ (run >= 2 /\ phase = "done") => (lua = lua_start /\ result = FALSE)

(***************************************************************************)
(* C10.  The value the top-level call of process_object_states returns is  *)
(* True exactly when the walk changed the LuaScript of some node.          *)
(***************************************************************************)
C10_ModifiedFlag ==
    phase = "done" => (result <=> \E n \in Nodes : lua[n] # lua_start[n])

\* a walk that changed one card and then met a top-level card it left alone
C10_Witness ==
    /\ phase = "done"
    /\ result
    /\ \E n, m \in Nodes :
        /\ n < m
        /\ tree[m].parent = 0
        /\ m \in visited
        /\ lua[n] # lua_start[n]
        /\ lua[m] # <<>> /\ lua[m] = lua_start[m]
        /\ \A d \in Nodes : d > m => lua[d] = lua_start[d]

\* the card image of an upgrade record exists at the repository
UpgradeExists(r) == RepoHas(repo, r.faction, r.name, "Upgrade")

(***************************************************************************)
(* C11.  The walker leaves the nodes, their ids, display names and         *)
(* children as they are; a LuaScript differs from the one the walk started *)
(* with only at a node recorded as a ship or an upgrade for which one of   *)
(* the queried images exists.                                              *)
(***************************************************************************)
C11_FrameEffect ==
    /\ [][tree' = tree /\ DOMAIN lua' = DOMAIN lua]_vars
    /\ [](\A n \in Nodes :
            lua[n] # lua_start[n] =>
                \/ \E r \in RecordsOf(n) : CardFrontExists(r) \/ ModelExists(r)
                \/ \E r \in UpgradeRecordsOf(n) : UpgradeExists(r))

\* a finished walk that rewrote the script of a ship of which exactly one
\* image exists
C11_Witness ==
    /\ phase = "done"
    /\ \E n \in Nodes : \E r \in RecordsOf(n) :
        /\ lua[n] # lua_start[n]
        /\ CardFrontExists(r) /\ ~ModelExists(r)

\* the URL literal of `field` in the script of n was rewritten to url: the
\* script the walk started with holds such a literal and the script now
\* holds url there
LiteralRewritten(n, field, url) ==
    /\ re_search(UrlPattern(field), lua_start[n])
    /\ extract_parameter(lua[n], field) = url

(***************************************************************************)
(* C12 (as stated).  An image field of a record is "Not Updated" exactly   *)
(* when the URL literal of that field was not rewritten in the node's      *)
(* script; otherwise it is the canonical URL.                              *)
(***************************************************************************)
C12_NotUpdated ==
    /\ \A r \in ShipRecords :
        /\ r.new_model_url = NotUpdated
              <=> ~LiteralRewritten(r.node, "modelImage", CanonicalUrl(r, "ModelImage"))
        /\ r.new_card_front_url = NotUpdated
              <=> ~LiteralRewritten(r.node, "cardFrontImage", CanonicalUrl(r, "CardFrontImage"))
        /\ r.new_model_url \in {NotUpdated, CanonicalUrl(r, "ModelImage")}
        /\ r.new_card_front_url \in {NotUpdated, CanonicalUrl(r, "CardFrontImage")}
    /\ \A r \in UpgradeRecords :
        /\ r.new_card_url = NotUpdated
              <=> ~LiteralRewritten(r.node, "cardImage",
                                    get_github_image_url(r.faction, r.name, "Upgrade", TRUE))
        /\ r.new_card_url \in {NotUpdated, get_github_image_url(r.faction, r.name, "Upgrade", TRUE)}

\* the upgrade name the walker uses for n: the name of the script, else
\* the display name
UpgradeNameOf(n) ==
    UpgradeName(extract_parameter(lua_start[n], "name"), NicknameOr(n, UnnamedObject))

\* n was handled as an upgrade card in this run
HandledAsUpgrade(n) ==
    /\ n \in visited
    /\ ~Excluded(n)
    /\ lua_start[n] # <<>>
    /\ ~should_skip_container(find_container_path(hierarchy, ObjGuid(n)))
    /\ ~(mode \in {MODE_SHIPS_ONLY, MODE_BOTH} /\ is_ship_card_script(lua_start[n]))
    /\ mode \in {MODE_UPGRADES_ONLY, MODE_BOTH}
    /\ is_upgrade_card_script(lua_start[n])

(***************************************************************************)
(* C13.  An upgrade whose card image does not exist: the error log holds   *)
(* exactly one line about the node, an ERROR line, the rewriter returns    *)
(* the body unchanged, the node's LuaScript is not written, and the        *)
(* upgrade record carries new_card_url = "Not Updated".                    *)
(***************************************************************************)
C13_UpgradeMissing ==
    \A n \in Nodes :
        (HandledAsUpgrade(n) /\ ~RepoHas(repo, ExpectedFaction(n), UpgradeNameOf(n), "Upgrade"))
        => /\ update_upgrade_card_script(repo, lua_start[n], ExpectedFaction(n), UpgradeNameOf(n),
                                         NicknameOr(n, UnnamedObject)).script = lua_start[n]
           /\ lua[n] = lua_start[n]
           /\ ErrorKinds(n) = << <<"ERROR", "Upgrade">> >>
           /\ Cardinality(UpgradeRecordsOf(n)) = 1
           /\ \A r \in UpgradeRecordsOf(n) : r.new_card_url = NotUpdated

\* an upgrade without its image whose URL literal and faction literal both
\* differ from what a rewrite would put there
C13_Witness ==
    \E r \in UpgradeRecords :
        /\ ~UpgradeExists(r)
        /\ HandledAsUpgrade(r.node)
        /\ r.faction = UCM
        /\ UpdateFaction(lua_start[r.node], r.faction) # lua_start[r.node]
        /\ re_search(UrlPattern("cardImage"), lua_start[r.node])
        /\ lua[r.node] = lua_start[r.node]
        /\ Len(ErrorsOf(r.node)) = 1

\* the nodes the walker skipped with a "Skipping ..." line
Skipped == {console[k].node : k \in 1..Len(console)}

\* m lies within the depth cap below containers that were not skipped
Walkable(m) == DepthOf(m) <= WALK_MAX_DEPTH /\ Ancestors(m) \cap Skipped = {}

\* the walk met a per-node issue at n: an error line, or a field that
\* extracted to its default
HasIssue(n) ==
    \/ ErrorsOf(n) # <<>>
    \/ \E r \in RecordsOf(n) :
          IntZero \in {r.baseScale, r.health, r.sig, r.points}
          \/ Unknown \in {r.modelImage, r.cardFrontImage}
    \/ \E r \in UpgradeRecordsOf(n) : r.points = IntZero \/ r.cardImage = Unknown

(***************************************************************************)
(* C14.  A per-node issue never aborts the walk: when the walk has         *)
(* returned, every node after a node with an issue (in document order)     *)
(* that lies within the depth cap below containers that were not skipped   *)
(* has been visited, and recorded if it is a card; the lines of the error  *)
(* log are in the traversal order of their nodes.                          *)
(***************************************************************************)
C14_NoAbort ==
    /\ phase = "done" =>
          \A n, m \in Nodes :
              (HasIssue(n) /\ m > n /\ Walkable(m)) =>
                  /\ m \in visited
                  /\ HandledAsShip(m) => RecordsOf(m) # {}
                  /\ HandledAsUpgrade(m) => UpgradeRecordsOf(m) # {}
    /\ \A i, j \in 1..Len(error_log) : i < j => error_log[i].node <= error_log[j].node

\* a finished walk in which a card with a missing image is followed by a
\* sibling that was recorded, with a missing image too
C14_Witness ==
    /\ phase = "done"
    /\ \E n, m \in Nodes :
        /\ n < m
        /\ tree[n].parent = tree[m].parent
        /\ ErrorsOf(n) # <<>> /\ ErrorsOf(m) # <<>>
        /\ RecordsOf(n) # {} /\ RecordsOf(m) # {}

(***************************************************************************)
(* C15.  Pass ordering: no node is visited and no record is made before    *)
(* the indexing pass has returned; from then on the index holds an entry   *)
(* for every node the indexing pass reaches, the nodes named by the        *)
(* exclusion list and their descendants included; and no step of the       *)
(* second pass changes the index.                                          *)
(***************************************************************************)
C15_PassOrder ==
    /\ [](~IndexDone => visited = {} /\ extracted_data = <<>> /\ extracted_upgrade_data = <<>>)
    /\ [](IndexDone => \A n \in Nodes : Reached(n) => n \in indexed /\ tree[n].guid \in DOMAIN hierarchy)
    /\ [][phase = "walk" => hierarchy' = hierarchy]_vars

\* a finished run that visited a node and skipped an excluded container
\* with a child: the child was never visited, and its index entry names the
\* container
C15_Witness ==
    /\ phase = "done"
    /\ \E n, d \in Nodes :
        /\ tree[n].has_nick /\ tree[n].nick \in IGNORED_CONTAINERS
        /\ tree[d].parent = n
        /\ n \in visited /\ d \notin visited
        /\ Reached(d)
        /\ hierarchy[tree[d].guid].parent_guid = tree[n].guid

\* list a is an initial part of list b
IsPrefix(a, b) == Len(a) <= Len(b) /\ SubSeq(b, 1, Len(a)) = a

\* the source nodes of the records of a list are in document pre-order
\* (nodes are numbered parent first, siblings in document order)
InPreOrder(list) == \A i, j \in 1..Len(list) : i < j => list[i].node < list[j].node

(***************************************************************************)
(* C20.  The report lists are append-only during the walk: every step of   *)
(* the walk leaves the records already in each list in place and           *)
(* unchanged, and the records of each list are in the depth-first          *)
(* pre-order of their source nodes.                                        *)
(***************************************************************************)
C20_AppendOnly ==
    /\ [][phase = "walk" =>
            /\ IsPrefix(extracted_data, extracted_data')
            /\ IsPrefix(extracted_upgrade_data, extracted_upgrade_data')]_vars
    /\ [](InPreOrder(extracted_data) /\ InPreOrder(extracted_upgrade_data))

\* a finished walk that recorded a container card, then its child, then
\* the container's next sibling
C20_Witness ==
    /\ phase = "done"
    /\ Len(extracted_data) >= 3
    /\ \E k \in 1..(Len(extracted_data) - 2) :
        /\ tree[extracted_data[k + 1].node].parent = extracted_data[k].node
        /\ tree[extracted_data[k + 2].node].parent = tree[extracted_data[k].node].parent

\* str.upper()
UpperStr(s) ==
    [i \in 1..Len(s) |-> IF \E k \in 1..26 : LowerOf[k] = s[i]
                          THEN Upper[CHOOSE k \in 1..26 : LowerOf[k] = s[i]] ELSE s[i]]

\* the first name of the list `names` whose lower-cased form occurs in the
\* lower-cased label; else Bioficers for a label with "bio"; else Neutral
FirstNamed(names, label) ==
    LET low == Lower(label)
        hits == {k \in 1..Len(names) : Contains(low, Lower(names[k]))}
    IN  IF hits # {} THEN names[Least(hits)]
        ELSE IF Contains(low, Lower(Bio)) THEN Bioficers
        ELSE Neutral

Returned(fn) == call.fn = fn /\ call.done

Present(body) == {body[i] : i \in 1..Len(body)}

(***************************************************************************)
(* C18.  A body is a Ship exactly when at least 3 of the 6 ship indicators *)
(* occur in it; it is an Upgrade exactly when at least 3 of the 5 upgrade  *)
(* indicators occur in it, it has a card-image reference (cardImage or     *)
(* CardImage) and no model-image reference (modelImage or ModelImage); the *)
(* walker makes no record for a body that is neither.                      *)
(***************************************************************************)
C18_Classification ==
    Returned("classify") =>
        /\ call.out.ship <=>
              Cardinality(Present(call.body) \cap {"rebuildUI()", "createModel", "cardFrontImage",
                                                    "modelImage", "baseScale", "onSave()"}) >= 3
        /\ call.out.upgrade <=>
              /\ Cardinality(Present(call.body) \cap {"rebuildUI()", "cardImage", "onLoad",
                                                       "points", "onSave()"}) >= 3
              /\ Present(call.body) \cap {"cardImage", "CardImage"} # {}
              /\ Present(call.body) \cap {"modelImage", "ModelImage"} = {}
        /\ (~call.out.ship /\ ~call.out.upgrade) => call.out.kind = "none" /\ call.out.records = 0

\* a body with three upgrade indicators, cardImage among them, and a
\* model-image reference: it is neither kind of card and is not recorded
C18_Witness ==
    /\ Returned("classify")
    /\ Present(call.body) = {"cardImage", "onLoad", "points", "ModelImage", "\n"}
    /\ ~call.out.ship /\ ~call.out.upgrade
    /\ call.out.records = 0

\* the value of the first statement of the list that assigns to the
\* field, else the field's default
FirstAssigned(stmts, field) ==
    LET hits == {k \in 1..Len(stmts) : stmts[k].target = field}
    IN  IF hits # {} THEN stmts[Least(hits)].value
        ELSE IF field \in {"baseScale", "health", "sig", "points"} THEN IntZero
        ELSE Unknown

(***************************************************************************)
(* C19.  extract_parameter(body, field) returns the value of the first     *)
(* assignment to the field in the body, and the default of the field (0    *)
(* for baseScale, health, sig, points; "Unknown" for the URL fields and    *)
(* name) when the body has no assignment to it.                            *)
(***************************************************************************)
C19_FirstAssignment ==
    Returned("extract_parameter") => call.out = FirstAssigned(call.stmts, call.field)

\* the lines the V2 run prints on a document without objects; none of
\* them reports an error
V2ProgressLines == {"Processing save file", "No data to write.", "Modified file written"}

\* the V2 run has reported an error: a printed line that is not a progress
\* line, or a line in the error log
V2ErrorReported ==
    \/ \E k \in 1..Len(v2.printed) : v2.printed[k] \notin V2ProgressLines
    \/ v2.error_log # <<>>

(***************************************************************************)
(* C16.  When the document has no top-level ObjectStates array, the run    *)
(* of process_file reports an error and does no partial processing: when   *)
(* it has returned, an error has been reported, the index is empty, no     *)
(* object has been visited, no record has been made, and no report and no  *)
(* output document has been written.                                       *)
(***************************************************************************)
C16_NoPartialProcessing ==
    (v2.pc = "done" /\ ~v2.data.has_states) =>
        /\ V2ErrorReported
        /\ v2.hier = EmptyDict
        /\ v2.visited = {}
        /\ v2.extracted_data = <<>>
        /\ v2.files = {}

\* n lies below a node that declares no id
BelowIdless(n) == \E a \in Ancestors(n) : ~tree[a].has_guid

\* the records of both report lists made for n
CardRecordsOf(n) == RecordsOf(n) \cup UpgradeRecordsOf(n)

(***************************************************************************)
(* C21.  A node without an id gets no index entry and none of its          *)
(* descendants is indexed: the indexing pass does not reach them.  The     *)
(* walker still visits the node and its descendants (within the depth      *)
(* cap, below containers that were not skipped).  A card below an id-less  *)
(* node is recorded with the empty container path and with the faction     *)
(* its own display name classifies to, whatever the names of its           *)
(* ancestors.                                                              *)
(***************************************************************************)
C21_IdlessBranch ==
    phase = "done" =>
        \A n \in Nodes :
            /\ BelowIdless(n) =>
                  /\ n \notin indexed
                  /\ HandledAsShip(n) => RecordsOf(n) # {}
                  /\ \A r \in CardRecordsOf(n) :
                        /\ r.container_path = <<>>
                        /\ r.faction = determine_faction_from_container(NicknameOr(n, UnnamedObject))
            /\ ((~tree[n].has_guid \/ BelowIdless(n)) /\ Walkable(n)) => n \in visited

\* the nodes below n
Descendants(n) == {d \in Nodes : n \in Ancestors(d)}

\* the console lines about n
SkipLinesOf(n) == {k \in 1..Len(console) : console[k].node = n}

\* n is reached by the walker and its display name is an entry of the
\* exclusion list
ReachedExcluded(n) ==
    n \in visited /\ tree[n].has_nick /\ tree[n].nick \in IGNORED_CONTAINERS

(***************************************************************************)
(* C22 (as stated).  For a node the walker reaches whose display name is   *)
(* an entry of the exclusion list, a skip message is printed for the node  *)
(* and for each of its descendants, and no line about them is added to     *)
(* the error log.                                                          *)
(***************************************************************************)
C22_AsStated ==
    phase = "done" =>
        \A n \in Nodes :
            ReachedExcluded(n) =>
                \A d \in {n} \cup Descendants(n) : SkipLinesOf(d) # {} /\ ErrorsOf(d) = <<>>

(***************************************************************************)
(* C22 (amended).  For a node the walker reaches whose display name is an  *)
(* entry of the exclusion list, exactly one skip message is printed, for   *)
(* the node itself and naming the path that ends with its display name;    *)
(* its descendants are not visited and no message is printed for them;     *)
(* no line about the node or its descendants is added to the error log.    *)
(***************************************************************************)
C22_SkipMessage ==
    phase = "done" =>
        \A n \in Nodes :
            ReachedExcluded(n) =>
                /\ Cardinality(SkipLinesOf(n)) = 1
                /\ \A k \in SkipLinesOf(n) :
                      /\ console[k].path # <<>>
                      /\ console[k].path[Len(console[k].path)] = tree[n].nick
                /\ ErrorsOf(n) = <<>>
                /\ \A d \in Descendants(n) :
                      d \notin visited /\ SkipLinesOf(d) = {} /\ ErrorsOf(d) = <<>>

\* a finished walk that printed one skip message for an excluded container
\* inside a faction container, and none for the card inside it
C22_Witness ==
    /\ phase = "done"
    /\ \E n, d \in Nodes :
        /\ ReachedExcluded(n)
        /\ tree[n].parent # 0
        /\ d \in Descendants(n)
        /\ lua[d] # <<>>
        /\ Cardinality(SkipLinesOf(n)) = 1
        /\ SkipLinesOf(d) = {}
        /\ Len(console) = 1

\* the walker is about to handle object n in the frame on top of the stack
AtObject(n) ==
    phase = "walk" /\ stack # <<>> /\ Top.i <= Len(Top.objs) /\ Top.objs[Top.i] = n

\* the walker resolves the container path of n in this iteration: n
\* carries a script and its name-based path is not excluded
ResolvesPath(n) ==
    /\ AtObject(n)
    /\ lua[n] # <<>>
    /\ ~should_skip_container(IF NicknameOr(n, UnnamedObject) # <<>>
                              THEN Append(Top.parent_path, NicknameOr(n, UnnamedObject))
                              ELSE Top.parent_path)

(***************************************************************************)
(* C23.  For every script-bearing node the walker reaches, the container   *)
(* path resolved from the node's own id equals the name-based parent path  *)
(* accumulated by the recursion, so the exclusion test gives the same      *)
(* verdict on both.                                                        *)
(***************************************************************************)
C23_PathsAgree ==
    \A n \in Nodes :
        ResolvesPath(n) =>
            /\ should_skip_container(find_container_path(hierarchy, ObjGuid(n)))
                   <=> should_skip_container(Top.parent_path)
            /\ find_container_path(hierarchy, ObjGuid(n)) = Top.parent_path

\* the script body of n classifies as a card kind that the mode enables
ShipCard(n) ==
    lua_start[n] # <<>> /\ mode \in {MODE_SHIPS_ONLY, MODE_BOTH} /\ is_ship_card_script(lua_start[n])
UpgradeCard(n) ==
    /\ lua_start[n] # <<>> /\ ~ShipCard(n)
    /\ mode \in {MODE_UPGRADES_ONLY, MODE_BOTH} /\ is_upgrade_card_script(lua_start[n])

(***************************************************************************)
(* C24.  Completeness of the walk: when the walk has returned, every node  *)
(* within the depth cap that is not named by the exclusion list, and none  *)
(* of whose ancestors is, has been visited, its children within the cap    *)
(* have been visited, and it has a record when its script body classifies  *)
(* as an enabled card kind -- whatever GUIDs the nodes declare.            *)
(***************************************************************************)
C24_Complete ==
    phase = "done" =>
        \A n \in Nodes :
            (DepthOf(n) <= WALK_MAX_DEPTH /\ ~Excluded(n)) =>
                /\ n \in visited
                /\ \A c \in Nodes :
                      (tree[c].parent = n /\ DepthOf(c) <= WALK_MAX_DEPTH) => c \in visited
                /\ ShipCard(n) => RecordsOf(n) # {}
                /\ UpgradeCard(n) => UpgradeRecordsOf(n) # {}

\* the URL literals that the assignments to `field` in body hold
UrlLiterals(body, field) ==
    {SubSeq(body, UrlMatch(body, i, field).g1, UrlMatch(body, i, field).g2) :
        i \in {j \in MatchStarts(body, 1, field) : UrlMatch(body, j, field).end # 0}}

\* the faction literals of body, in either form the rewriters know
FactionLiterals(body) ==
    UNION {{SubSeq(body, SubMatch(faction_patterns[k], body, i).g1,
                         SubMatch(faction_patterns[k], body, i).g2) :
               i \in {j \in MatchStarts(body, 1, "faction") :
                         SubMatch(faction_patterns[k], body, j).end # 0}} :
           k \in 1..Len(faction_patterns)}

\* the round trip on one card: `before` was rewritten to `after` for a
\* card of that name and faction; images is the set of <<field, kind>>
\* of the card's images and kept the fields that are no image
RoundTrip(before, after, name, faction, is_upgrade, images, kept) ==
    /\ \A im \in images :
          (RepoHas(repo, faction, name, im[2]) /\ UrlLiterals(before, im[1]) # {}) =>
              /\ extract_parameter(after, im[1]) = get_github_image_url(faction, name, im[2], is_upgrade)
              /\ UrlLiterals(after, im[1]) = {get_github_image_url(faction, name, im[2], is_upgrade)}
    /\ ((\E im \in images : RepoHas(repo, faction, name, im[2])) /\ FactionLiterals(before) # {}) =>
          FactionLiterals(after) = {faction}
    /\ \A f \in kept : extract_parameter(after, f) = extract_parameter(before, f)

(***************************************************************************)
(* C25.  Rewrite/extract round trip: for every recorded card, when an      *)
(* image of a kind exists and the body assigns a URL to that kind's field, *)
(* extract_parameter on the rewritten body gives the canonical URL for     *)
(* the field, and every such assignment holds it; when at least one image  *)
(* exists and the body has a faction literal, the faction literals of the  *)
(* rewritten body are the determined faction; name, baseScale, health,     *)
(* sig and points extract to the same values as before.                    *)
(***************************************************************************)
C25_RoundTrip ==
    phase = "done" =>
        /\ \A r \in ShipRecords :
              RoundTrip(lua_start[r.node], lua[r.node], r.name, r.faction, FALSE,
                        {<<"cardFrontImage", "CardFrontImage">>, <<"modelImage", "ModelImage">>},
                        {"name", "baseScale", "health", "sig", "points"})
        /\ \A r \in UpgradeRecords :
              RoundTrip(lua_start[r.node], lua[r.node], r.name, r.faction, TRUE,
                        {<<"cardImage", "Upgrade">>}, {"name", "points"})

\* the positions of the two report lists that hold a record of n
ShipRows(n) == {k \in 1..Len(extracted_data) : extracted_data[k].node = n}
UpgradeRows(n) == {k \in 1..Len(extracted_upgrade_data) : extracted_upgrade_data[k].node = n}

\* the nodes that carry a non-empty script body
Scripted == {n \in Nodes : lua_start[n] # <<>>}

(***************************************************************************)
(* C26.  In a run each node has at most one record, in one of the two      *)
(* report lists, and only a visited node has one.  In mode "both" a body   *)
(* that satisfies the ship and the upgrade predicate is recorded as a      *)
(* ship and never as an upgrade; in mode "ships" the upgrade list stays    *)
(* empty and in mode "upgrades" the ship list stays empty; the two lists   *)
(* together never hold more records than there are nodes with a non-empty  *)
(* script body.                                                            *)
(***************************************************************************)
C26_OneRecord ==
    /\ \A n \in Nodes :
          /\ Cardinality(ShipRows(n)) + Cardinality(UpgradeRows(n)) <= 1
          /\ ShipRows(n) \cup UpgradeRows(n) # {} => n \in visited /\ n \in Scripted
          /\ (mode = MODE_BOTH /\ is_ship_card_script(lua_start[n])
                  /\ is_upgrade_card_script(lua_start[n])) =>
                /\ UpgradeRows(n) = {}
                /\ (phase = "done" /\ n \in visited /\ n \notin Skipped) => ShipRows(n) # {}
    /\ mode = MODE_SHIPS_ONLY => extracted_upgrade_data = <<>>
    /\ mode = MODE_UPGRADES_ONLY => extracted_data = <<>>
    /\ Len(extracted_data) + Len(extracted_upgrade_data) <= Cardinality(Scripted)

\* a finished run in mode "both" that recorded a body satisfying both
\* predicates once, as a ship
C26_Witness ==
    /\ phase = "done"
    /\ mode = MODE_BOTH
    /\ \E n \in Nodes :
        /\ is_ship_card_script(lua_start[n]) /\ is_upgrade_card_script(lua_start[n])
        /\ Cardinality(ShipRows(n)) = 1
        /\ UpgradeRows(n) = {}
        /\ Len(extracted_data) = 1

\* n and all its ancestors declare a non-empty GUID
GuidChain(n) ==
    \A a \in Ancestors(n) \cup {n} : tree[a].has_guid /\ tree[a].guid # ""

(***************************************************************************)
(* C27.  The depth caps of the two passes coincide: every node the walker  *)
(* reaches lies within the indexer's depth cap, and when it carries a      *)
(* non-empty GUID, as all its ancestors do, the index holds an entry under *)
(* its GUID, so find_container_path starts from an id of the index.        *)
(***************************************************************************)
C27_CapsCoincide ==
    \A n \in visited :
        /\ DepthOf(n) <= BUILD_MAX_DEPTH
        /\ GuidChain(n) =>
              /\ n \in indexed
              /\ tree[n].guid \in DOMAIN hierarchy

\* the walker has reached the node at the depth of the cap on a chain that
\* goes deeper, and the index holds its entry and the name of its parent
C27_Witness ==
    /\ phase = "walk"
    /\ \E n \in visited :
        /\ DepthOf(n) = WALK_MAX_DEPTH
        /\ GuidChain(n)
        /\ n + 1 \in Nodes /\ tree[n + 1].parent = n
        /\ tree[n].guid \in DOMAIN hierarchy
        /\ hierarchy[tree[n].guid].parent_guid = tree[tree[n].parent].guid

\* the number of containers above object o of the V2 document
RECURSIVE V2DepthOf(_)
V2DepthOf(o) ==
    IF v2.data.nodes[o].parent = 0 THEN 0 ELSE 1 + V2DepthOf(v2.data.nodes[o].parent)

\* the rewriting pass of the V2 run has returned
V2Updated == v2.pc \in {"report", "errors", "save", "done"}

(***************************************************************************)
(* C28.  In the V2 script the rewriting pass is depth-capped like the      *)
(* indexing pass: when update_ships or update_upgrades has returned, no    *)
(* object nested deeper than the 10 levels of build_hierarchy has been     *)
(* visited, has a record, or has a changed script or image URL.            *)
(***************************************************************************)
C28_V2DepthCap ==
    V2Updated =>
        \A o \in 1..Len(v2.data.nodes) :
            V2DepthOf(o) > V2_MAX_DEPTH =>
                /\ o \notin v2.visited
                /\ \A k \in 1..Len(v2.extracted_data) : v2.extracted_data[k].node # o
                /\ v2.lua[o] = v2.data.nodes[o].LuaScript
                /\ v2.urls[o] = v2.data.nodes[o].ImageURL

=============================================================================
